---------------------------- MODULE Spec2Model ----------------------------
(***************************************************************************)
(* CASS-DB-Manager: the speciation engine of scripts/CassSpeciation.py.    *)
(*                                                                         *)
(* Numbers.  The engine computes in IEEE doubles (pandas / numpy).  The    *)
(* model computes in exact rationals <<n, d>> (d > 0, lowest terms) and    *)
(* keeps the one non-number the engine relies on, NaN, as a value of its   *)
(* own.  Timestamps are whole seconds; a calendar day is DaySeconds.       *)
(***************************************************************************)
EXTENDS Integers, Sequences, FiniteSets, TLC

-----------------------------------------------------------------------------
(* Exact rational arithmetic with NaN                                       *)

Abs(n) == IF n < 0 THEN -n ELSE n

RECURSIVE Gcd(_, _)
Gcd(a, b) == IF b = 0 THEN a ELSE Gcd(b, a % b)

NaN == <<0, 0>>

IsNaN(a) == a[2] = 0

Norm(n, d) ==
    IF d = 0 THEN NaN
    ELSE LET g == Gcd(Abs(n), Abs(d))
             s == IF d < 0 THEN -1 ELSE 1
         IN  <<s * (n \div g), s * (d \div g)>>

Num(n) == <<n, 1>>

Frac(n, d) == Norm(n, d)

RAdd(a, b) ==
    IF IsNaN(a) \/ IsNaN(b) THEN NaN
    ELSE LET g == Gcd(a[2], b[2])
         IN  Norm(a[1] * (b[2] \div g) + b[1] * (a[2] \div g), (a[2] \div g) * b[2])

RNeg(a) == IF IsNaN(a) THEN NaN ELSE <<-a[1], a[2]>>

RSub(a, b) == RAdd(a, RNeg(b))

RMul(a, b) ==
    IF IsNaN(a) \/ IsNaN(b) THEN NaN
    ELSE LET g1 == Gcd(Abs(a[1]), b[2])
             g2 == Gcd(Abs(b[1]), a[2])
         IN  <<(a[1] \div g1) * (b[1] \div g2), (a[2] \div g2) * (b[2] \div g1)>>

\* A zero divisor gives a non-number (numpy: inf or nan, never an exception).
RDiv(a, b) ==
    IF IsNaN(a) \/ IsNaN(b) \/ b[1] = 0 THEN NaN
    ELSE RMul(a, Norm(b[2], b[1]))

REq(a, b) == ~IsNaN(a) /\ ~IsNaN(b) /\ a = b

\* a < b for numbers in lowest terms, by comparing integer parts and then
\* the reciprocals of the fractional parts (no product is formed).
RECURSIVE FracLess(_, _, _, _)
FracLess(an, ad, bn, bd) ==
    LET qa == an \div ad
        qb == bn \div bd
        ra == an % ad
        rb == bn % bd
    IN  IF qa # qb THEN qa < qb
        ELSE IF rb = 0 THEN FALSE
        ELSE IF ra = 0 THEN TRUE
        ELSE FracLess(bd, rb, ad, ra)

\* IEEE comparison: anything compared with NaN is false.
RLess(a, b) == ~IsNaN(a) /\ ~IsNaN(b) /\ FracLess(a[1], a[2], b[1], b[2])

RLeq(a, b) == ~IsNaN(a) /\ ~IsNaN(b) /\ ~FracLess(b[1], b[2], a[1], a[2])

RECURSIVE RPow(_, _)
RPow(a, k) ==
    IF k = 0 THEN Num(1)
    ELSE IF k < 0 THEN RDiv(Num(1), RPow(a, -k))
    ELSE RMul(a, RPow(a, k - 1))

-----------------------------------------------------------------------------
(* Program constants                                                        *)

DaySeconds == 86400

SentinelValue == -99

BrCGridSize == 61

SOCGridSize == 101

StepDivisor == 10

MinDistinctDays == 3

PerMille == 1000

Sentinel == Num(SentinelValue)

\* allowed_intervals of main(): 20, 30, 60 and 120 minutes, in seconds.
AllowedIntervals == {1200, 1800, 3600, 7200}

\* The wavelength ratios of calculate_final_columns: 950/470 and 470/880.
RatioIRBlue == Frac(950, 470)

RatioBlueBC == Frac(470, 880)

-----------------------------------------------------------------------------
(* Sequence helpers                                                         *)

Range(s) == {s[i] : i \in DOMAIN s}

\* The ascending sequence of a finite set of integers.
SortedSeq(S) ==
    [k \in 1..Cardinality(S) |->
        CHOOSE x \in S : Cardinality({y \in S : y < x}) = k - 1]

-----------------------------------------------------------------------------
(* Chunked regression: the grid search of min_r2_calculation_for_brC and    *)
(* min_r2_calculation_for_SOC.  A frame df is a sequence of rows; a row is  *)
(* a function from column names to values.                                  *)

\* (col != -99) & (~col.isna())
IsGood(v) == ~REq(v, Sentinel) /\ ~IsNaN(v)

\* The elements f[lo], ..., f[hi] as a sequence, built by halving the range.
RECURSIVE BuildSeq(_, _, _)
BuildSeq(f, lo, hi) ==
    IF lo > hi THEN <<>>
    ELSE IF lo = hi THEN <<f[lo]>>
    ELSE LET mid == (lo + hi) \div 2
         IN  BuildSeq(f, lo, mid) \o BuildSeq(f, mid + 1, hi)

\* A pandas Series: index labels (row positions of the frame) and values.
\* chunk[(chunk[col] != -99) & (~chunk[col].isna())][col]
GoodSeries(df, chunk, col) ==
    LET idx == SelectSeq(chunk, LAMBDA i : IsGood(df[i][col]))
        At(k) == df[idx[k]][col]
    IN  [idx |-> idx, val |-> BuildSeq([k \in 1..Len(idx) |-> At(k)], 1, Len(idx))]

\* Position of label i in the ascending label sequence idx (0 if absent).
PosOf(idx, i) == IF \E k \in DOMAIN idx : idx[k] = i
                 THEN CHOOSE k \in DOMAIN idx : idx[k] = i ELSE 0

\* raw_good - stp * ref_good: pandas aligns the two Series on the union of
\* their index labels (ascending) and gives NaN where either side is absent.
Residual(rawS, refS, stp) ==
    IF rawS.idx = refS.idx
    THEN LET At(k) == RSub(rawS.val[k], RMul(stp, refS.val[k]))
         IN  BuildSeq([k \in 1..Len(rawS.idx) |-> At(k)], 1, Len(rawS.idx))
    ELSE LET idx == SortedSeq(Range(rawS.idx) \cup Range(refS.idx))
             At(k) == LET a == PosOf(rawS.idx, idx[k])
                          b == PosOf(refS.idx, idx[k])
                      IN  IF a = 0 \/ b = 0 THEN NaN
                          ELSE RSub(rawS.val[a], RMul(stp, refS.val[b]))
         IN  BuildSeq([k \in 1..Len(idx) |-> At(k)], 1, Len(idx))

\* The sum of the whole numbers s[lo..hi], halving the range.
RECURSIVE ISum(_, _, _)
ISum(s, lo, hi) ==
    IF lo > hi THEN 0
    ELSE IF lo = hi THEN s[lo]
    ELSE LET mid == (lo + hi) \div 2
         IN  ISum(s, lo, mid) + ISum(s, mid + 1, hi)

Lcm(a, b) == (a \div Gcd(a, b)) * b

RECURSIVE LcmOfDens(_, _, _)
LcmOfDens(xs, lo, hi) ==
    IF lo > hi THEN 1
    ELSE IF lo = hi THEN xs[lo][2]
    ELSE LET mid == (lo + hi) \div 2
         IN  Lcm(LcmOfDens(xs, lo, mid), LcmOfDens(xs, mid + 1, hi))

\* The series as whole numbers over its common denominator (a positive
\* rescaling, which leaves the correlation coefficient as it is).
Scaled(xs) ==
    LET l == LcmOfDens(xs, 1, Len(xs))
        At(k) == xs[k][1] * (l \div xs[k][2])
    IN  BuildSeq([k \in 1..Len(xs) |-> At(k)], 1, Len(xs))

\* n * sum(x * y) - sum(x) * sum(y): n * (n - 1) times np.cov(x, y)[0, 1].
CoMoment(X, Y) ==
    LET n == Len(X)
    IN  n * ISum([k \in 1..n |-> X[k] * Y[k]], 1, n) - ISum(X, 1, n) * ISum(Y, 1, n)

\* np.corrcoef(x, y)[0, 1] ** 2 for two series of the same length: the
\* squared Pearson coefficient c01^2 / (c00 * c11) = (c01 / c00) * (c01 / c11);
\* NaN when an entry is NaN or a variance is zero (0/0 in numpy).
CorrSquared(xs, ys) ==
    IF \E k \in DOMAIN xs : IsNaN(xs[k]) \/ IsNaN(ys[k]) THEN NaN
    ELSE LET X == Scaled(xs)
             Y == Scaled(ys)
             sxy == CoMoment(X, Y)
         IN  RMul(Frac(sxy, CoMoment(X, X)), Frac(sxy, CoMoment(Y, Y)))

\* np.corrcoef raises ValueError when the two series differ in length.
CorrRaises(rawS, refS) ==
    LET n == Cardinality(Range(rawS.idx) \cup Range(refS.idx))
    IN  n > 1 /\ n # Len(refS.idx)

\* r2_ of candidate i: corr_ ** 2, with corr_ = 0.0 when len(residual) <= 1.
Score(rawS, refS, i) ==
    LET resid == Residual(rawS, refS, Frac(i, StepDivisor))
    IN  IF Len(resid) > 1 THEN CorrSquared(resid, refS.val) ELSE Num(0)

\* np.argmin: the first NaN if there is one, else the first minimum
\* (0-based position in the grid).
ArgMinStrict(r2_vals) ==
    CHOOSE i \in 0..(Len(r2_vals) - 1) :
        /\ \A j \in 0..(Len(r2_vals) - 1) : RLeq(r2_vals[i + 1], r2_vals[j + 1])
        /\ \A j \in 0..(i - 1) : ~REq(r2_vals[j + 1], r2_vals[i + 1])

ArgMin(r2_vals) ==
    IF \E i \in DOMAIN r2_vals : IsNaN(r2_vals[i])
    THEN (CHOOSE i \in DOMAIN r2_vals :
              IsNaN(r2_vals[i]) /\ \A j \in 1..(i - 1) : ~IsNaN(r2_vals[j])) - 1
    ELSE ArgMinStrict(r2_vals)

\* The whole search over range(gridSize): the scores, the selected position
\* and min_step = steps[min_idx].
GridSearch(rawS, refS, gridSize) ==
    LET ScoreAt(k) == Score(rawS, refS, k - 1)
        r2_vals == BuildSeq([k \in 1..gridSize |-> ScoreAt(k)], 1, gridSize)
        min_idx == ArgMin(r2_vals)
    IN  [r2_vals |-> r2_vals, min_idx |-> min_idx,
         min_step |-> Frac(min_idx, StepDivisor), min_r2 |-> r2_vals[min_idx + 1]]

-----------------------------------------------------------------------------
(* Columns                                                                  *)

TcaColumns == <<"TCconc", "CO2", "EC", "OC", "AE33_BC6">>

RawBCColumns == <<"BC1", "BC2", "BC3", "BC4", "BC5", "BC6", "BC7">>

BAbsColumns == <<"B-abs1", "B-abs2", "B-abs3", "B-abs4", "B-abs5", "B-abs6", "B-abs7">>

\* ordered_columns of run(): the 31 columns of the output table.
OrderedColumns ==
    <<"Date_and_Time", "B-abs1", "B-abs2", "B-abs3", "B-abs4", "B-abs5", "B-abs6",
      "B-abs7", "TCconc", "CO2", "EC", "OC", "AE33_BC6", "B-abs6_Val", "B-abs-ff",
      "B-abs-bb", "BC-ff", "BC-bb", "B-abs-BC", "B-abs-Brc", "BrC", "BrC-abs-Sec",
      "SOC", "POC", "BrC-abs-Prim", "POA", "SOA", "POA_BrC", "SOA_BrC", "POA_WtC",
      "SOA_WtC">>

\* The anchor rule's columns without B-abs-Brc; C7 must tell it from
\* AnchorForced.
AnchorForcedWithoutBrc ==
    {"B-abs-bb", "B-abs-ff", "BC-ff", "BC-bb", "B-abs-BC", "BrC-abs-Sec"}

\* The columns the absorption-anchor rule forces to -99.
AnchorForced ==
    {"B-abs-bb", "B-abs-ff", "BC-ff", "BC-bb", "B-abs-Brc", "B-abs-BC", "BrC-abs-Sec"}

\* The TCconc rule's columns without CO2; C8 must tell it from TCconcForced.
TCconcForcedWithoutCO2 ==
    {"SOC", "POC", "SOA", "POA", "AE33_BC6", "BrC", "BrC-abs-Sec", "BrC-abs-Prim",
     "POA_BrC", "SOA_BrC", "POA_WtC", "SOA_WtC", "TCconc", "EC", "OC", "BC-ff", "BC-bb"}

\* The columns the TCconc rule forces to -99.
TCconcForced ==
    {"SOC", "POC", "SOA", "POA", "AE33_BC6", "BrC", "BrC-abs-Sec", "BrC-abs-Prim",
     "POA_BrC", "SOA_BrC", "POA_WtC", "SOA_WtC", "TCconc", "CO2", "EC", "OC",
     "BC-ff", "BC-bb"}

-----------------------------------------------------------------------------
(* Time                                                                     *)

\* A datetime is a whole number of seconds since an epoch midnight; the
\* 'YYYY-MM-DD HH:MM:SS' strings of the data store order as these numbers do.
Days(n) == n * DaySeconds

\* .dt.date / strftime("%Y-%m-%d"): the calendar day of a timestamp.
DateOf(ts) == ts \div DaySeconds

\* The nearest grid line instead of the one below; C24 must tell it from
\* BucketOf.
BucketOfNearest(ts, interval) == ((ts + interval \div 2) \div interval) * interval

\* (CAST(strftime('%s', ts) AS INTEGER) / interval) * interval; the epoch
\* seconds of a reading are not negative, where SQLite's integer division is
\* \div.
BucketOf(ts, interval) == (ts \div interval) * interval

-----------------------------------------------------------------------------
(* fetch_hourly_data                                                        *)

\* WHERE ts >= 'start day' AND ts < 'day after end day'
InFetchRange(ts, start_, end_) ==
    /\ DateOf(ts) >= DateOf(start_)
    /\ DateOf(ts) < DateOf(end_ + Days(1))

\* One source bucketed (the CTEs t and a): bucket key -> the rows grouped.
SourceRows(table, timeCol, start_, end_) ==
    {r \in table : InFetchRange(r[timeCol], start_, end_)}

SourceBuckets(table, timeCol, start_, end_, interval) ==
    {BucketOf(r[timeCol], interval) : r \in SourceRows(table, timeCol, start_, end_)}

RECURSIVE SumOver(_, _)
SumOver(rows, col) ==
    IF rows = {} THEN 0
    ELSE LET r == CHOOSE x \in rows : TRUE
         IN  r[col] + SumOver(rows \ {r}, col)

\* AVG(col) over the rows of one bucket.
Avg(rows, col) == Frac(SumOver(rows, col), Cardinality(rows))

\* COALESCE(AVG(col), -99) through the LEFT JOIN on the bucket key.
AvgOrSentinel(table, timeCol, start_, end_, interval, b, col) ==
    LET rows == {r \in SourceRows(table, timeCol, start_, end_) :
                    BucketOf(r[timeCol], interval) = b}
    IN  IF rows = {} THEN Sentinel ELSE Avg(rows, col)

\* The buckets of the TCA source alone; C5 must tell it from UnionBuckets.
TcaBucketsOnly(tca, ae33, start_, end_, interval) ==
    SourceBuckets(tca, "StartTimeLocal", start_, end_, interval)

\* SELECT bucket FROM t UNION SELECT bucket FROM a ... ORDER BY b.bucket
UnionBuckets(tca, ae33, start_, end_, interval) ==
    SourceBuckets(tca, "StartTimeLocal", start_, end_, interval)
        \cup SourceBuckets(ae33, "datetime", start_, end_, interval)

\* The buckets in descending order; C4 must tell it from OrderByBucket.
OrderByBucketDescending(buckets) ==
    LET asc == SortedSeq(buckets)
    IN  [k \in DOMAIN asc |-> asc[Len(asc) + 1 - k]]

OrderByBucket(buckets) == SortedSeq(buckets)

\* One row of the query result: avg_* columns, -99 for an absent source.
FetchedRow(tca, ae33, start_, end_, interval, b) ==
    [c \in {"Date_and_Time"} \cup Range(TcaColumns) \cup Range(RawBCColumns) |->
        IF c = "Date_and_Time" THEN b
        ELSE IF c \in Range(TcaColumns)
        THEN AvgOrSentinel(tca, "StartTimeLocal", start_, end_, interval, b, c)
        ELSE AvgOrSentinel(ae33, "datetime", start_, end_, interval, b, c)]

fetch_hourly_data(tca, ae33, start_, end_, interval) ==
    LET order == OrderByBucket(UnionBuckets(tca, ae33, start_, end_, interval))
        At(k) == FetchedRow(tca, ae33, start_, end_, interval, order[k])
    IN  BuildSeq([k \in 1..Len(order) |-> At(k)], 1, Len(order))

\* bc_multipliers of __init__: float(constants_cfg["BCi"]) / 1000.0
BcMultiplier(cfg, i) == RDiv(cfg.BC[i], Num(PerMille))

\* df.rename(...) and df[B-absi] = df[B-absi] * bc_multipliers[BCi] of run().
RenameAndScale(row, cfg) ==
    [c \in {"Date_and_Time"} \cup Range(TcaColumns) \cup Range(BAbsColumns) |->
        IF c \in Range(BAbsColumns)
        THEN LET i == CHOOSE k \in 1..7 : BAbsColumns[k] = c
             IN  RMul(row[RawBCColumns[i]], BcMultiplier(cfg, i))
        ELSE row[c]]

RenameAndScaleAll(df, cfg) == [i \in DOMAIN df |-> RenameAndScale(df[i], cfg)]

-----------------------------------------------------------------------------
(* Frames                                                                   *)

\* df.at[idx, col] = v / df[col] = v on one row (the column is created if new).
SetCol(row, c, v) ==
    IF c \in DOMAIN row THEN [row EXCEPT ![c] = v] ELSE (c :> v) @@ row

Timestamps(df) == {df[i]["Date_and_Time"] : i \in DOMAIN df}

MinOf(S) == CHOOSE x \in S : \A y \in S : x <= y

MaxOf(S) == CHOOSE x \in S : \A y \in S : x >= y

\* df[(df.Date_and_Time >= start_) & (df.Date_and_Time < chunk_end)]: the
\* index labels of the chunk, in frame order.
ChunkIndex(df, start_, chunk_end) ==
    SelectSeq([i \in DOMAIN df |-> i],
              LAMBDA i : df[i]["Date_and_Time"] >= start_
                         /\ df[i]["Date_and_Time"] < chunk_end)

\* chunk['Date_and_Time'].dt.date.nunique()
UniqueDays(df, chunk) == Cardinality({DateOf(df[chunk[k]]["Date_and_Time"]) : k \in DOMAIN chunk})

\* The two regression instances: raw signal, reference signal, derived
\* column and grid size.
BrCInstance == [raw |-> "B-abs2", ref |-> "B-abs6", out |-> "BrC-abs-Sec",
                grid |-> BrCGridSize, name |-> "BrC"]

SOCInstance == [raw |-> "OC", ref |-> "AE33_BC6", out |-> "SOC",
                grid |-> SOCGridSize, name |-> "SOC"]

\* An eligibility test that asks for the raw series only; C10 must tell it
\* from Regressable.
RegressableOnRawAlone(df, chunk, inst) ==
    /\ ~(UniqueDays(df, chunk) < MinDistinctDays)
    /\ GoodSeries(df, chunk, inst.raw).idx # <<>>

\* The eligibility test at the head of the loop body: at least 3 distinct
\* days, and neither good series empty.
Regressable(df, chunk, inst) ==
    /\ ~(UniqueDays(df, chunk) < MinDistinctDays)
    /\ GoodSeries(df, chunk, inst.raw).idx # <<>>
    /\ GoodSeries(df, chunk, inst.ref).idx # <<>>

\* The derived value written to the rows of the filtered subset only; C11
\* must tell it from ApplyChunk.
ApplyChunkToGoodRows(df, chunk, inst, min_step) ==
    [i \in DOMAIN df |->
        IF i \in Range(chunk) /\ IsGood(df[i][inst.raw]) /\ IsGood(df[i][inst.ref])
        THEN SetCol(df[i], inst.out,
                    RSub(df[i][inst.raw], RMul(min_step, df[i][inst.ref])))
        ELSE IF inst.out \in DOMAIN df[i] THEN df[i]
        ELSE SetCol(df[i], inst.out, NaN)]

\* The derived value written to every row of the frame; C21 must tell it from
\* ApplyChunk.
ApplyChunkWholeFrame(df, chunk, inst, min_step) ==
    [i \in DOMAIN df |->
        SetCol(df[i], inst.out, RSub(df[i][inst.raw], RMul(min_step, df[i][inst.ref])))]

\* df.loc[mask, out] = df.loc[mask, raw] - min_step * df.loc[mask, ref]:
\* rows outside the mask keep their value, or get NaN when the column is new.
ApplyChunk(df, chunk, inst, min_step) ==
    [i \in DOMAIN df |->
        IF i \in Range(chunk)
        THEN SetCol(df[i], inst.out,
                    RSub(df[i][inst.raw], RMul(min_step, df[i][inst.ref])))
        ELSE IF inst.out \in DOMAIN df[i] THEN df[i]
        ELSE SetCol(df[i], inst.out, NaN)]

\* The column filled with the sentinel instead of NaN; C12 must tell it from
\* SetColumnNaN.
SetColumnSentinel(df, c) == [i \in DOMAIN df |-> SetCol(df[i], c, Num(SentinelValue))]

\* df[out] = float('nan')
SetColumnNaN(df, c) == [i \in DOMAIN df |-> SetCol(df[i], c, NaN)]

-----------------------------------------------------------------------------
(* calculate_final_columns: the closed-form columns, then the sentinel pass *)

\* The formula columns of one row, in the order the code assigns them.
FormulaColumns(row, cfg) ==
    LET b2 == row["B-abs2"]
        b6 == row["B-abs6"]
        b7 == row["B-abs7"]
        pff == RPow(RatioIRBlue, -cfg.AAE_ff)
        pbb == RPow(RatioIRBlue, -cfg.AAE_bb)
        denFF == RSub(pff, pbb)
        abs_ff == RDiv(RSub(b7, RMul(b2, pbb)), denFF)
        abs_bb == RDiv(RSub(b7, RMul(b2, pff)), denFF)
        part2 == RDiv(cfg.MAC_ff, cfg.MAC_bb)
        part3_nm == RSub(Num(1), RMul(RDiv(b2, b7), pff))
        part3_dm == RSub(Num(1), RMul(RDiv(b2, b7), pbb))
        BCff_BC_Ratio == RDiv(Num(1), RSub(Num(1), RMul(part2, RDiv(part3_nm, part3_dm))))
        bc_ff == RMul(row["AE33_BC6"], BCff_BC_Ratio)
        bc_bb == RSub(row["AE33_BC6"], bc_ff)
        abs_bc == RMul(b6, RPow(RatioBlueBC, -cfg.AAE_bc))
        abs_brc == RSub(b2, abs_bc)
        brc == RSub(row["OC"], row["AE33_BC6"])
        poc == RSub(row["OC"], row["SOC"])
        poa == RMul(poc, cfg.POA_POC_Ratio)
        soa == RMul(row["SOC"], cfg.SOA_SOC_Ratio)
        prim == RSub(abs_brc, row["BrC-abs-Sec"])
        poa_brc == RDiv(prim, cfg.MAC_BrC_Prim)
        soa_brc == RDiv(row["BrC-abs-Sec"], cfg.MAC_BrC_Sec)
    IN  ("B-abs-ff" :> abs_ff) @@ ("B-abs-bb" :> abs_bb) @@ ("BC-ff" :> bc_ff)
        @@ ("BC-bb" :> bc_bb) @@ ("B-abs-BC" :> abs_bc) @@ ("B-abs-Brc" :> abs_brc)
        @@ ("BrC" :> brc) @@ ("POC" :> poc) @@ ("POA" :> poa) @@ ("SOA" :> soa)
        @@ ("BrC-abs-Prim" :> prim) @@ ("POA_BrC" :> poa_brc) @@ ("SOA_BrC" :> soa_brc)
        @@ ("POA_WtC" :> RSub(poa, poa_brc)) @@ ("SOA_WtC" :> RSub(soa, soa_brc))
        @@ row

\* if (row['B-abs7'] == -99) or (row['B-abs2'] == -99)
AnchorRuleFires(row) == REq(row["B-abs7"], Sentinel) \/ REq(row["B-abs2"], Sentinel)

\* if pd.isna(row['TCconc']) or (row['TCconc'] == -99)
TCconcRuleFires(row) == IsNaN(row["TCconc"]) \/ REq(row["TCconc"], Sentinel)

ForceColumns(row, cols) == [c \in DOMAIN row |-> IF c \in cols THEN Sentinel ELSE row[c]]

\* The body of the iterrows() loop for one row; `row` is the row as iterrows
\* yielded it, before either rule wrote to it.
AnchorRule(row) == IF AnchorRuleFires(row) THEN ForceColumns(row, AnchorForced) ELSE row

TCconcRule(row, cur) == IF TCconcRuleFires(row) THEN ForceColumns(cur, TCconcForced) ELSE cur

SentinelPass(row) == TCconcRule(row, AnchorRule(row))

FinalColumnsOf(df, cfg) == [i \in DOMAIN df |-> SentinelPass(FormulaColumns(df[i], cfg))]

\* run(): B-abs6_Val, the filter on [start_date, end_date], fillna("NA") and
\* the projection on ordered_columns.
NA == <<"NA">>

BAbs6Val(row) == RMul(row["AE33_BC6"], Frac(777, 100 * PerMille))

InOutputWindow(ts, start_date, end_date) == ts >= start_date /\ ts <= end_date

FillNA(v) == IF IsNaN(v) THEN NA ELSE v

FinalRow(row) ==
    LET full == ("B-abs6_Val" :> BAbs6Val(row)) @@ row
    IN  [c \in Range(OrderedColumns) |->
            IF c = "Date_and_Time" THEN full[c] ELSE FillNA(full[c])]

FinalFrame(df, start_date, end_date) ==
    LET keep == SelectSeq([i \in DOMAIN df |-> i],
                          LAMBDA i : InOutputWindow(df[i]["Date_and_Time"], start_date, end_date))
    IN  [k \in DOMAIN keep |-> FinalRow(df[keep[k]])]

-----------------------------------------------------------------------------
(* Bounds of the model and the inputs drawn within them                     *)

\* Data and requested windows lie on days 0..MaxDay.
MaxDay == 2

\* Time_Delta is drawn from 1..MaxTimeDelta.
MaxTimeDelta == 3

DayRange == 0..MaxDay

\* Instrument-B (TCA) and Instrument-A (AE33) raw rows.
TcaRow(id, ts, oc, bc) ==
    [ID |-> id, StartTimeLocal |-> ts, TCconc |-> oc + bc + 1, CO2 |-> 5,
     EC |-> bc + 1, OC |-> oc, AE33_BC6 |-> bc]

\* Raw AE33 readings are whole multiples of 3, so that a calibration constant
\* of 1000/3 scales them to whole numbers and the sentinel to -33.
Ae33Row(ts, b2, b6) ==
    [datetime |-> ts, BC1 |-> 3 * (b2 + 2), BC2 |-> 3 * b2, BC3 |-> 3 * (b2 + 1),
     BC4 |-> 3 * (b6 + 2), BC5 |-> 3 * (b6 + 1), BC6 |-> 3 * b6, BC7 |-> 3 * (b6 + 3)]

RefVal(d) == 1 + ((2 * d) % 5)

RawVal(d) == 2 + ((d * d) % 4)

\* One reading a day at midnight.
TcaDaily == {TcaRow(d + 1, Days(d), RawVal(d), RefVal(d)) : d \in DayRange}

\* One reading a day at 12:00, and a second one at 12:25 on day 0.
TcaNoon ==
    {TcaRow(d + 1, Days(d) + 43200, RawVal(d) + 1, RefVal(d)) : d \in DayRange}
        \cup {TcaRow(100, 43200 + 1500, 6, 4)}

\* Two readings a day, at 00:00 and 00:25.
Ae33Twice ==
    {Ae33Row(Days(d), RawVal(d) + 2, RefVal(d)) : d \in DayRange}
        \cup {Ae33Row(Days(d) + 1500, RawVal(d) + 4, RefVal(d) + 2) : d \in DayRange}

\* One reading a day at 12:00.
Ae33Noon == {Ae33Row(Days(d) + 43200, RawVal(d) + 2, RefVal(d) + 1) : d \in DayRange}

\* A single reading, on day 1 at 12:00.
TcaSingle == {TcaRow(1, Days(1) + 43200, 4, 2)}

\* One reading a day at 12:00 up to the day after MaxDay, and a second one at
\* 12:25 on that last day.
TcaBeyond ==
    {TcaRow(d + 1, Days(d) + 43200, RawVal(d) + 1, RefVal(d)) : d \in 0..(MaxDay + 1)}
        \cup {TcaRow(100, Days(MaxDay + 1) + 43200 + 1500, 6, 4)}

TcaTables == {{}, TcaDaily, TcaNoon, TcaSingle, TcaBeyond}

\* A single reading, later than every TCA reading.
Ae33Late == {Ae33Row(Days(MaxDay + 2), 3, 2)}

Ae33Tables == {{}, Ae33Twice, Ae33Noon, Ae33Late}

\* constants.conf: the calibration constants BC1..BC7 (per mille), the exponents
\* and ratios, Time_Delta.
BCUnit == [i \in 1..7 |-> Num(PerMille)]

\* BC6 and BC7 are 1000, the other five are 1000/3.
BCMixed == [i \in 1..7 |-> IF i \in {6, 7} THEN Num(PerMille) ELSE Frac(PerMille, 3)]

Configs ==
    {[BC |-> bc, Time_Delta |-> td, AAE_bb |-> 2, AAE_ff |-> 1, AAE_bc |-> 1,
      MAC_bb |-> Num(2), MAC_ff |-> Num(1), POA_POC_Ratio |-> Num(2),
      SOA_SOC_Ratio |-> Num(3), MAC_BrC_Prim |-> Num(1), MAC_BrC_Sec |-> Num(2)] :
        bc \in {BCUnit, BCMixed}, td \in 1..MaxTimeDelta}

-----------------------------------------------------------------------------
(* State                                                                    *)

VARIABLES
    pc,                   \* position in main() / run()
    arg_start,            \* start_date argument of __init__ (the user's start)
    arg_end,              \* end_date argument of __init__ (the user's end)
    constants_cfg,        \* the constants.conf dictionary
    avg_interval_seconds, \* bucket width
    tca_table,            \* rows of the TCA table
    ae33_table,           \* rows of the AE33 table
    start_date,           \* self.start_date
    end_date,             \* self.end_date
    TCA_AE_hourly,        \* self.TCA_AE_hourly
    start_,               \* loop variable of the regression pass under way
    found_3day,           \* found_3day of the regression pass under way
    rsquared_plots,       \* the plots saved in rsquared_dir, in order
    final_df,             \* the table written to sheet "data"
    artifacts,            \* directories and sheets created so far
    grid_in,              \* input of a stand-alone grid search
    grid_out,             \* its result
    absent_keys,          \* required keys that the two config files lack
    queries,              \* the queries issued to the database so far
    global_start,         \* main(): start of the overlap of the two tables
    global_end,           \* main(): end of the overlap of the two tables
    user_start,           \* main(): the last start date entered
    user_end,             \* main(): the last end date entered
    user_interval,        \* main(): the last averaging interval entered
    timestamps,           \* the timestamps a bucketing or a gap detector is given
    bucket,               \* the bucket keys computed for them
    gaps_df,              \* the gaps a gap query or the audit reports
    threshold_minutes,    \* audit.py: the modal spacing, in minutes
    files,                \* dbPush: the raw files found in the data folder
    added,                \* dbPush: rows added by the last upload run
    uploaded,             \* dbPush: the folders' contents uploaded so far
    menu_state,           \* main.py: the menu shown
    exitFile,             \* main.py: the flag that ends the menu loop
    menu_entry_index,     \* main.py: the entry chosen in the menu shown
    launched              \* main.py: the scripts and openers started so far

vars == <<pc, arg_start, arg_end, constants_cfg, avg_interval_seconds, tca_table,
          ae33_table, start_date, end_date, TCA_AE_hourly, start_, found_3day,
          rsquared_plots, final_df, artifacts, grid_in, grid_out, absent_keys,
          queries, global_start, global_end, user_start, user_end, user_interval,
          timestamps, bucket, gaps_df, threshold_minutes, files, added, uploaded,
          menu_state, exitFile,
          menu_entry_index, launched>>

inputs == <<arg_start, arg_end, constants_cfg, avg_interval_seconds, tca_table, ae33_table>>

gridVars == <<grid_in, grid_out>>

promptVars == <<absent_keys, global_start, global_end, user_start, user_end,
                user_interval>>

\* The state of the other scripts: audit.py, dbPush.py, main.py.
toolVars == <<timestamps, bucket, gaps_df, threshold_minutes, files, added, uploaded,
          menu_state, exitFile,
          menu_entry_index, launched>>

None == "none"

Time_Delta == constants_cfg.Time_Delta

\* The engine taken on its own: complete config files, nothing entered at a
\* prompt.
NoPrompt ==
    /\ absent_keys = {}
    /\ global_start = None /\ global_end = None
    /\ user_start = None /\ user_end = None /\ user_interval = None

\* No other script has run.
NoTools ==
    /\ timestamps = None /\ bucket = None /\ gaps_df = None /\ threshold_minutes = None
    /\ files = None /\ added = None /\ uploaded = None
    /\ menu_state = None /\ exitFile = None
    /\ menu_entry_index = None /\ launched = None

\* The state when main() has read its inputs and is about to construct the
\* engine.
InitRun ==
    /\ pc = "start"
    /\ start_date = None /\ end_date = None
    /\ TCA_AE_hourly = <<>>
    /\ start_ = None /\ found_3day = FALSE
    /\ rsquared_plots = <<>>
    /\ final_df = <<>>
    /\ artifacts = {}
    /\ grid_in = None /\ grid_out = None
    /\ NoPrompt /\ queries = <<>> /\ NoTools

Init ==
    /\ InitRun
    /\ \E s \in DayRange, e \in DayRange :
          s <= e /\ arg_start = Days(s) /\ arg_end = Days(e)
    /\ constants_cfg \in Configs
    /\ avg_interval_seconds \in AllowedIntervals
    /\ tca_table \in TcaTables
    /\ ae33_table \in Ae33Tables

-----------------------------------------------------------------------------
(* CassSpeciation.__init__                                                  *)

\* Python's a % b for b # 0: the result has the sign of b.
PyMod(a, b) == IF b > 0 THEN a % b ELSE -((-a) % (-b))

\* (end_date - start_date).days + 1
DaysInRange(start, end) == ((end - start) \div DaySeconds) + 1

\* An extension by the remainder itself instead of what is missing to the next
\* multiple; C2 must tell it from ExtendedEnd.
ExtendedEndByRemainder(start, end, td) ==
    LET remainder == DaysInRange(start, end) % td
    IN  IF remainder # 0 THEN end + Days(remainder) ELSE end

\* The end date after the extension to a whole number of chunks.
ExtendedEnd(start, end, td) ==
    LET remainder == PyMod(DaysInRange(start, end), td)
    IN  IF remainder # 0 THEN end + Days(td - remainder) ELSE end

\* required_bc, required_keys and needed_db_keys of __init__.
RequiredBc == {"BC1", "BC2", "BC3", "BC4", "BC5", "BC6", "BC7"}

RequiredKeys ==
    {"AAE_bb", "AAE_ff", "AAE_bc", "MAC_bb", "MAC_ff", "POA_POC_Ratio",
     "SOA_SOC_Ratio", "MAC_BrC_Prim", "MAC_BrC_Sec", "Time_Delta"}

NeededDbKeys == {"dbPath", "AE33_Table", "TCA_Table"}

\* A key of constants.conf or db.conf is missing: the error is logged and
\* the constructor calls sys.exit(1) before it creates any directory.
ConstructMissingKeys ==
    /\ pc = "start"
    /\ absent_keys \cap (RequiredBc \cup RequiredKeys \cup NeededDbKeys) # {}
    /\ pc' = "exit"
    /\ UNCHANGED <<inputs, start_date, end_date, TCA_AE_hourly, start_, found_3day,
                   rsquared_plots, final_df, artifacts, gridVars, toolVars, promptVars, queries>>

\* Time_Delta is 0: days_in_range % self.Time_Delta raises ZeroDivisionError
\* before any directory is made.
ConstructZeroDivision ==
    /\ pc = "start"
    /\ absent_keys \cap (RequiredBc \cup RequiredKeys \cup NeededDbKeys) = {}
    /\ Time_Delta = 0
    /\ pc' = "crashed"
    /\ UNCHANGED <<inputs, start_date, end_date, TCA_AE_hourly, start_, found_3day,
                   rsquared_plots, final_df, artifacts, gridVars, toolVars, promptVars, queries>>

Construct ==
    /\ pc = "start"
    /\ absent_keys \cap (RequiredBc \cup RequiredKeys \cup NeededDbKeys) = {}
    /\ Time_Delta # 0
    /\ pc' = "constructed"
    /\ start_date' = arg_start
    /\ end_date' = ExtendedEnd(arg_start, arg_end, Time_Delta)
    /\ artifacts' = artifacts \cup {"run_dir", "plot_dir", "rsquared_dir"}
    /\ UNCHANGED <<inputs, TCA_AE_hourly, start_, found_3day, rsquared_plots,
                   final_df, gridVars, toolVars,
                   promptVars, queries>>

-----------------------------------------------------------------------------
(* CassSpeciation.run, up to the start of calculate_final_columns           *)

MarginStart == start_date - Days(Time_Delta)

MarginEnd == end_date + Days(Time_Delta)

Fetched == fetch_hourly_data(tca_table, ae33_table, MarginStart, MarginEnd,
                             avg_interval_seconds)

\* The exit taken only after the fetch; C16 must tell it from RunExcelOpen.
RunExcelOpenAfterFetch ==
    /\ pc = "constructed"
    /\ queries' = Append(queries, "fetch_hourly_data")
    /\ pc' = "exit"
    /\ UNCHANGED <<inputs, start_date, end_date, TCA_AE_hourly, start_, found_3day,
                   rsquared_plots, final_df, artifacts, gridVars, toolVars, promptVars>>

\* is_excel_open() found the workbook open in another process: sys.exit(1).
RunExcelOpen ==
    /\ pc = "constructed"
    /\ pc' = "exit"
    /\ UNCHANGED <<inputs, start_date, end_date, TCA_AE_hourly, start_, found_3day,
                   rsquared_plots, final_df, artifacts, gridVars, toolVars,
                   promptVars, queries>>

\* An empty sheet "data" written before the return; C15 must tell it from
\* RunFetchEmpty.
RunFetchEmptyWritesSheet ==
    /\ pc = "constructed"
    /\ Fetched = <<>>
    /\ queries' = Append(queries, "fetch_hourly_data")
    /\ artifacts' = artifacts \cup {"data"}
    /\ pc' = "returned"
    /\ UNCHANGED <<inputs, start_date, end_date, TCA_AE_hourly, start_, found_3day,
                   rsquared_plots, final_df, gridVars, toolVars, promptVars>>

\* The query returned no rows: a warning, and run() returns.
RunFetchEmpty ==
    /\ pc = "constructed"
    /\ Fetched = <<>>
    /\ queries' = Append(queries, "fetch_hourly_data")
    /\ pc' = "returned"
    /\ UNCHANGED <<inputs, start_date, end_date, TCA_AE_hourly, start_, found_3day,
                   rsquared_plots, final_df, artifacts, gridVars, toolVars, promptVars>>

\* Fetch, rename, scale, and enter min_r2_calculation_for_brC.
RunFetch ==
    /\ pc = "constructed"
    /\ pc' = "brC"
    /\ TCA_AE_hourly' = RenameAndScaleAll(Fetched, constants_cfg)
    /\ TCA_AE_hourly' # <<>>
    /\ start_' = MinOf(Timestamps(TCA_AE_hourly'))
    /\ found_3day' = FALSE
    /\ queries' = Append(queries, "fetch_hourly_data")
    /\ UNCHANGED <<inputs, start_date, end_date, rsquared_plots, final_df, artifacts,
                   gridVars, toolVars, promptVars>>

-----------------------------------------------------------------------------
(* min_r2_calculation_for_brC / min_r2_calculation_for_SOC                  *)

\* A window of one day whatever Time_Delta is; C20 must tell it from ChunkEnd.
ChunkEndOneDay == start_ + Days(1)

ChunkEnd == start_ + Days(Time_Delta)

\* A chunk that also takes the rows at chunk_end itself; C29 must tell it
\* from CurrentChunk.
CurrentChunkInclusive == ChunkIndex(TCA_AE_hourly, start_, ChunkEnd + 1)

\* chunk = df[(Date_and_Time >= start_) & (Date_and_Time < chunk_end)]
CurrentChunk == ChunkIndex(TCA_AE_hourly, start_, ChunkEnd)

LoopContinues == start_ < MaxOf(Timestamps(TCA_AE_hourly))

\* Days before day 0 that a timestamp of the frame's type can hold (pandas
\* Timestamps end in 1677; the model's range is a few days).
MaxDaysBack == 4

\* The earliest day a timestamp can hold.
MinTimestampDay == 0 - MaxDaysBack

\* An addition that wraps around to the frame's first timestamp instead of
\* raising; C22 must tell it from SkipChunkOutOfBounds.
SkipChunkWrapsAround(inst, at) ==
    /\ pc = at
    /\ LoopContinues
    /\ ChunkEnd < Days(MinTimestampDay)
    /\ start_' = MinOf(Timestamps(TCA_AE_hourly))
    /\ UNCHANGED <<pc, inputs, start_date, end_date, TCA_AE_hourly, found_3day,
                   rsquared_plots, final_df, artifacts, gridVars, toolVars, promptVars, queries>>

\* start_ + timedelta(days=Time_Delta) leaves the range of the timestamp
\* type: the addition raises and the run ends.  Only the first pass can
\* meet it: the second walks the same timestamps with the same Time_Delta.
SkipChunkOutOfBounds(inst, at) ==
    /\ pc = at
    /\ LoopContinues
    /\ ChunkEnd < Days(MinTimestampDay)
    /\ pc' = "raised"
    /\ UNCHANGED <<inputs, start_date, end_date, TCA_AE_hourly, start_, found_3day,
                   rsquared_plots, final_df, artifacts, gridVars, toolVars, promptVars, queries>>

\* One pass of the loop body whose chunk fails the eligibility test.
SkipChunk(inst, at) ==
    /\ pc = at
    /\ LoopContinues
    /\ ~(ChunkEnd < Days(MinTimestampDay))
    /\ ~Regressable(TCA_AE_hourly, CurrentChunk, inst)
    /\ start_' = ChunkEnd
    /\ UNCHANGED <<pc, inputs, start_date, end_date, TCA_AE_hourly, found_3day,
                   rsquared_plots, final_df, artifacts, gridVars, toolVars,
                   promptVars, queries>>

\* What the saved plot of a chunk shows: the instance, the chunk's dates, and
\* the annotated minimum.
SavedPlot(inst, from, to, g) ==
    [instance |-> inst.name, start |-> from, chunk_end |-> to,
     min_step |-> g.min_step, min_r2 |-> g.min_r2]

\* One pass of the loop body on a regressable chunk: grid search, plot, apply.
\* np.corrcoef raising ends the run with the exception.
RegressChunk(inst, at) ==
    /\ pc = at
    /\ LoopContinues
    /\ Regressable(TCA_AE_hourly, CurrentChunk, inst)
    /\ LET rawS == GoodSeries(TCA_AE_hourly, CurrentChunk, inst.raw)
           refS == GoodSeries(TCA_AE_hourly, CurrentChunk, inst.ref)
       IN  IF CorrRaises(rawS, refS)
           THEN /\ pc' = "raised"
                /\ found_3day' = TRUE
                /\ UNCHANGED <<TCA_AE_hourly, start_, rsquared_plots>>
           ELSE /\ found_3day' = TRUE
                /\ rsquared_plots' = Append(rsquared_plots,
                       SavedPlot(inst, start_, ChunkEnd, GridSearch(rawS, refS, inst.grid)))
                /\ TCA_AE_hourly' = ApplyChunk(TCA_AE_hourly, CurrentChunk, inst,
                                               rsquared_plots'[Len(rsquared_plots')].min_step)
                /\ start_' = ChunkEnd
                /\ pc' = pc
    /\ UNCHANGED <<inputs, start_date, end_date, final_df, artifacts, gridVars, toolVars,
                   promptVars, queries>>

\* The loop has ended: the whole column is NaN if no chunk was regressed.
FinishPass(inst, at, next) ==
    /\ pc = at
    /\ ~LoopContinues
    /\ TCA_AE_hourly' = IF ~found_3day THEN SetColumnNaN(TCA_AE_hourly, inst.out)
                        ELSE TCA_AE_hourly
    /\ start_' = MinOf(Timestamps(TCA_AE_hourly))
    /\ found_3day' = FALSE
    /\ pc' = next
    /\ UNCHANGED <<inputs, start_date, end_date, rsquared_plots, final_df, artifacts,
                   gridVars, toolVars,
                   promptVars, queries>>

BrCSkip == SkipChunk(BrCInstance, "brC")

BrCRegress == RegressChunk(BrCInstance, "brC")

BrCDone == FinishPass(BrCInstance, "brC", "SOC")

SOCSkip == SkipChunk(SOCInstance, "SOC")

SOCRegress == RegressChunk(SOCInstance, "SOC")

SOCDone == FinishPass(SOCInstance, "SOC", "final")

BrCOutOfBounds == SkipChunkOutOfBounds(BrCInstance, "brC")

-----------------------------------------------------------------------------
(* calculate_final_columns after the two passes, and the rest of run()      *)

FinalColumns ==
    /\ pc = "final"
    /\ TCA_AE_hourly' = FinalColumnsOf(TCA_AE_hourly, constants_cfg)
    /\ pc' = "calculated"
    /\ UNCHANGED <<inputs, start_date, end_date, start_, found_3day, rsquared_plots,
                   final_df, artifacts, gridVars, toolVars,
                   promptVars, queries>>

Output ==
    /\ pc = "calculated"
    /\ final_df' = FinalFrame(TCA_AE_hourly, start_date, end_date)
    /\ artifacts' = artifacts \cup {"data", "constants", "TCA Gaps", "AE33 Gaps", "plots"}
    /\ queries' = queries \o <<"fetch_tca_gaps", "fetch_ae33_gaps">>
    /\ pc' = "done"
    /\ UNCHANGED <<inputs, start_date, end_date, TCA_AE_hourly, start_, found_3day,
                   rsquared_plots, gridVars, toolVars, promptVars>>

Next ==
    \/ Construct
    \/ RunExcelOpen
    \/ RunFetchEmpty
    \/ RunFetch
    \/ BrCSkip
    \/ BrCRegress
    \/ BrCDone
    \/ SOCSkip
    \/ SOCRegress
    \/ SOCDone
    \/ FinalColumns
    \/ Output

Spec == Init /\ [][Next]_vars

-----------------------------------------------------------------------------
(* The engine with every integer Time_Delta, up to the end of the passes     *)

LoopDeltas == (-2)..MaxTimeDelta

LoopConfigs ==
    {[c EXCEPT !.Time_Delta = td] :
        c \in {x \in Configs : x.BC = BCUnit /\ x.Time_Delta = 1}, td \in LoopDeltas}

\* The fields __init__ and run() assign later hold a timestamp from the
\* start, so that any two states of a behaviour can be compared.
InitLoop ==
    /\ pc = "start"
    /\ start_date = 0 /\ end_date = 0
    /\ TCA_AE_hourly = <<>>
    /\ start_ = 0 /\ found_3day = FALSE
    /\ rsquared_plots = <<>>
    /\ final_df = <<>>
    /\ artifacts = {}
    /\ grid_in = None /\ grid_out = None
    /\ NoPrompt /\ queries = <<>> /\ NoTools
    /\ \E s \in DayRange, e \in DayRange :
          s <= e /\ arg_start = Days(s) /\ arg_end = Days(e)
    /\ constants_cfg \in LoopConfigs
    /\ avg_interval_seconds = 3600
    /\ tca_table \in {TcaDaily, TcaNoon}
    /\ ae33_table \in {{}, Ae33Twice}

NextLoop ==
    \/ Construct
    \/ ConstructZeroDivision
    \/ RunExcelOpen
    \/ RunFetchEmpty
    \/ RunFetch
    \/ BrCSkip
    \/ BrCRegress
    \/ BrCOutOfBounds
    \/ BrCDone
    \/ SOCSkip
    \/ SOCRegress
    \/ SOCDone

SpecLoop == InitLoop /\ [][NextLoop]_vars

\* Where the run stands: the statement it is at and the loop variable.
\* Every step of the run changes it.
position == <<pc, start_>>

\* The statements outside the two loops.
StraightLine ==
    \/ Construct
    \/ ConstructZeroDivision
    \/ RunExcelOpen
    \/ RunFetchEmpty
    \/ RunFetch
    \/ BrCDone
    \/ SOCDone

\* One turn of a pass's while loop, whatever its body does: it moves start_
\* by Time_Delta days or ends the run with an exception.
LoopIteration(at) ==
    /\ pc = at
    /\ LoopContinues
    /\ \/ pc' = "raised" /\ start_' = start_
       \/ pc' = pc /\ start_' = ChunkEnd

\* Python runs the statements of a run one after the other: a statement that
\* can run does run, and a loop whose condition holds takes its next turn.
SpecLoopFair ==
    /\ SpecLoop
    /\ WF_position(StraightLine)
    /\ WF_position(LoopIteration("brC"))
    /\ WF_position(LoopIteration("SOC"))

-----------------------------------------------------------------------------
(* main(): the range queries, the overlap, the two prompts, the constructor  *)

\* The four queries of main(): MIN/MAX/COUNT and the first 100 timestamps of
\* each table.
MainQueries == <<"ae33_range", "ae33_sample", "tca_range", "tca_sample">>

\* What is typed at a prompt: a text, and for a text of the form YYYY-MM-DD
\* the day it names.
Entry(text, day) == [text |-> text, day |-> day]

PromptDays == (-1)..(MaxDay + 1)

DateEntries ==
    {Entry("exit", 0), Entry("EXIT", 0), Entry("next week", 0)}
        \cup {Entry("YYYY-MM-DD", d) : d \in PromptDays}

\* user_start.lower() == "exit"
IsExit(e) == e.text \in {"exit", "EXIT"}

\* datetime.strptime(text, "%Y-%m-%d") succeeds
Parses(e) == e.text = "YYYY-MM-DD"

\* datetime.strptime(text, "%Y-%m-%d"): midnight of the day
Strptime(e) == Days(e.day)

IntervalEntries == {"exit", "20", "30", "45", "60", "120"}

\* allowed_intervals_prompt
AllowedIntervalsPrompt ==
    ("20" :> 1200) @@ ("30" :> 1800) @@ ("60" :> 3600) @@ ("120" :> 7200)

\* The state when main() has parsed the command line and loaded the two
\* config files, at most one required key missing.
InitMain ==
    /\ pc = "main"
    /\ arg_start = None /\ arg_end = None
    /\ constants_cfg \in Configs
    /\ avg_interval_seconds = 3600
    /\ tca_table \in TcaTables
    /\ ae33_table \in Ae33Tables
    /\ start_date = None /\ end_date = None
    /\ TCA_AE_hourly = <<>>
    /\ start_ = None /\ found_3day = FALSE
    /\ rsquared_plots = <<>>
    /\ final_df = <<>>
    /\ artifacts = {}
    /\ grid_in = None /\ grid_out = None
    /\ absent_keys \in {{}} \cup {{k} : k \in RequiredBc \cup RequiredKeys \cup NeededDbKeys}
    /\ queries = <<>> /\ NoTools
    /\ global_start = None /\ global_end = None
    /\ user_start = None /\ user_end = None /\ user_interval = None

mainFixed == <<constants_cfg, tca_table, ae33_table, start_date, end_date,
               TCA_AE_hourly, start_, found_3day, rsquared_plots, final_df,
               artifacts, gridVars, toolVars, absent_keys>>

\* db_cfg["dbPath"] raises KeyError.
MainKeyError ==
    /\ pc = "main"
    /\ "dbPath" \in absent_keys
    /\ pc' = "crashed"
    /\ UNCHANGED <<mainFixed, arg_start, arg_end, avg_interval_seconds, queries,
                   global_start, global_end, user_start, user_end, user_interval>>

\* MIN() of an empty table is NULL: pd.to_datetime(None) is None, and the
\* .date() of the first print raises AttributeError.
MainEmptyTable ==
    /\ pc = "main"
    /\ "dbPath" \notin absent_keys
    /\ tca_table = {} \/ ae33_table = {}
    /\ queries' = queries \o MainQueries
    /\ pc' = "crashed"
    /\ UNCHANGED <<mainFixed, arg_start, arg_end, avg_interval_seconds,
                   global_start, global_end, user_start, user_end, user_interval>>

\* max(ae33_min, tca_min) and min(ae33_max, tca_max)
GlobalStart ==
    MaxOf({MinOf({r.datetime : r \in ae33_table}),
           MinOf({r.StartTimeLocal : r \in tca_table})})

\* The later of the two last readings; C17 must tell it from GlobalEnd.
GlobalEndOfEither ==
    MaxOf({MaxOf({r.datetime : r \in ae33_table}),
           MaxOf({r.StartTimeLocal : r \in tca_table})})

GlobalEnd ==
    MinOf({MaxOf({r.datetime : r \in ae33_table}),
           MaxOf({r.StartTimeLocal : r \in tca_table})})

\* The four queries, then: global_start > global_end, sys.exit(1).
MainNoOverlap ==
    /\ pc = "main"
    /\ "dbPath" \notin absent_keys
    /\ tca_table # {} /\ ae33_table # {}
    /\ queries' = queries \o MainQueries
    /\ global_start' = GlobalStart
    /\ global_end' = GlobalEnd
    /\ global_start' > global_end'
    /\ pc' = "exit"
    /\ UNCHANGED <<mainFixed, arg_start, arg_end, avg_interval_seconds,
                   user_start, user_end, user_interval>>

\* The four queries, then the date prompt.
MainOverlap ==
    /\ pc = "main"
    /\ "dbPath" \notin absent_keys
    /\ tca_table # {} /\ ae33_table # {}
    /\ queries' = queries \o MainQueries
    /\ global_start' = GlobalStart
    /\ global_end' = GlobalEnd
    /\ global_start' <= global_end'
    /\ pc' = "prompt"
    /\ UNCHANGED <<mainFixed, arg_start, arg_end, avg_interval_seconds,
                   user_start, user_end, user_interval>>

\* One round of the date prompt, with what it leaves in pc and in the two
\* dates handed to the constructor.
PromptRound(us, ue, to, start_dt, end_dt) ==
    /\ pc = "prompt"
    /\ user_start' = us
    /\ user_end' = ue
    /\ pc' = to
    /\ arg_start' = start_dt
    /\ arg_end' = end_dt
    /\ UNCHANGED <<mainFixed, avg_interval_seconds, queries, global_start,
                   global_end, user_interval>>

\* 'exit' at either prompt: sys.exit(0).
PromptExit ==
    /\ pc = "prompt"
    /\ \E us \in DateEntries, ue \in DateEntries :
        /\ IsExit(us) \/ IsExit(ue)
        /\ PromptRound(us, ue, "exit", arg_start, arg_end)

\* strptime raises ValueError: "Invalid date format", and the loop goes round.
PromptBadFormat ==
    /\ pc = "prompt"
    /\ \E us \in DateEntries, ue \in DateEntries :
        /\ ~IsExit(us) /\ ~IsExit(ue)
        /\ ~Parses(us) \/ ~Parses(ue)
        /\ PromptRound(us, ue, "prompt", arg_start, arg_end)

\* start_dt < global_start or end_dt > global_end: the loop goes round.
PromptOutOfRange ==
    /\ pc = "prompt"
    /\ \E us \in DateEntries, ue \in DateEntries :
        /\ Parses(us) /\ Parses(ue)
        /\ Strptime(us) < global_start \/ Strptime(ue) > global_end
        /\ PromptRound(us, ue, "prompt", arg_start, arg_end)

\* end_dt < start_dt: the loop goes round.
PromptEndBeforeStart ==
    /\ pc = "prompt"
    /\ \E us \in DateEntries, ue \in DateEntries :
        /\ Parses(us) /\ Parses(ue)
        /\ ~(Strptime(us) < global_start \/ Strptime(ue) > global_end)
        /\ Strptime(ue) < Strptime(us)
        /\ PromptRound(us, ue, "prompt", arg_start, arg_end)

\* break: the range is taken.
PromptAccept ==
    /\ pc = "prompt"
    /\ \E us \in DateEntries, ue \in DateEntries :
        /\ Parses(us) /\ Parses(ue)
        /\ ~(Strptime(us) < global_start \/ Strptime(ue) > global_end)
        /\ ~(Strptime(ue) < Strptime(us))
        /\ PromptRound(us, ue, "interval", Strptime(us), Strptime(ue))

\* One round of the interval prompt.
IntervalRound(ui, to, seconds) ==
    /\ pc = "interval"
    /\ user_interval' = ui
    /\ pc' = to
    /\ avg_interval_seconds' = seconds
    /\ UNCHANGED <<mainFixed, arg_start, arg_end, queries, global_start, global_end,
                   user_start, user_end>>

IntervalExit ==
    /\ pc = "interval"
    /\ IntervalRound("exit", "exit", avg_interval_seconds)

IntervalReject ==
    /\ pc = "interval"
    /\ \E ui \in IntervalEntries :
        /\ ui # "exit"
        /\ ui \notin DOMAIN AllowedIntervalsPrompt
        /\ IntervalRound(ui, "interval", avg_interval_seconds)

IntervalAccept ==
    /\ pc = "interval"
    /\ \E ui \in IntervalEntries :
        /\ ui \in DOMAIN AllowedIntervalsPrompt
        /\ IntervalRound(ui, "start", AllowedIntervalsPrompt[ui])

NextMain ==
    \/ MainKeyError
    \/ MainEmptyTable
    \/ MainNoOverlap
    \/ MainOverlap
    \/ PromptExit
    \/ PromptBadFormat
    \/ PromptOutOfRange
    \/ PromptEndBeforeStart
    \/ PromptAccept
    \/ IntervalExit
    \/ IntervalReject
    \/ IntervalAccept
    \/ ConstructMissingKeys
    \/ Construct

SpecMain == InitMain /\ [][NextMain]_vars

-----------------------------------------------------------------------------
(* The grid search on its own: two good series in, the selection out        *)

\* Largest reading of a drawn series.
MaxVal == 3

\* Series of one reading and of three readings, labelled 1..n.
DrawnSeries(vals) ==
    {[idx |-> [k \in DOMAIN v |-> k], val |-> v] :
        v \in {<<Num(a)>> : a \in vals}
                \cup {<<Num(a), Num(b), Num(c)>> : a \in vals, b \in vals, c \in vals}}

\* Reference series: a few shapes, among them a constant one.
RefSeriesSet ==
    {sr \in DrawnSeries(1..MaxVal) :
        sr.val[1] = Num(1) /\ (Len(sr.val) = 1 \/ sr.val[2] # Num(MaxVal))}

RawSeriesSet == DrawnSeries(0..MaxVal)

InitGrid ==
    /\ pc = "grid"
    /\ arg_start = 0 /\ arg_end = 0
    /\ constants_cfg \in {c \in Configs : c.Time_Delta = MinDistinctDays /\ c.BC = BCUnit}
    /\ avg_interval_seconds = 3600
    /\ tca_table = {} /\ ae33_table = {}
    /\ start_date = None /\ end_date = None
    /\ TCA_AE_hourly = <<>>
    /\ start_ = None /\ found_3day = FALSE
    /\ rsquared_plots = <<>>
    /\ final_df = <<>>
    /\ artifacts = {}
    /\ NoPrompt /\ queries = <<>> /\ NoTools
    /\ \E rawS \in RawSeriesSet, refS \in RefSeriesSet, g \in {BrCGridSize, SOCGridSize} :
          /\ Len(rawS.val) = Len(refS.val)
          /\ grid_in = [rawS |-> rawS, refS |-> refS, grid |-> g]
    /\ grid_out = None

ApplyGridSearch ==
    /\ pc = "grid"
    /\ grid_out' = GridSearch(grid_in.rawS, grid_in.refS, grid_in.grid)
    /\ pc' = "grid_done"
    /\ UNCHANGED <<inputs, start_date, end_date, TCA_AE_hourly, start_, found_3day,
                   rsquared_plots, final_df, artifacts, grid_in, promptVars, toolVars,
                   queries>>

SpecGrid == InitGrid /\ [][ApplyGridSearch]_vars

-----------------------------------------------------------------------------
(* C9: the grid the search covers and the candidate it selects              *)

GridDone == pc = "grid_done"

SelectedScore == grid_out.r2_vals[grid_out.min_idx + 1]

\* C9 (as claimed): after every grid search the selected coefficient attains
\* the minimum score over the whole grid (every candidate's score is at least
\* the selected one's), it is the smallest candidate that does, and it is the
\* grid value min_idx / 10 of a grid of 61 (BrC) or 101 (SOC) candidates.
C9_SelectsSmallestMinimum ==
    GridDone =>
        /\ Len(grid_out.r2_vals) = grid_in.grid
        /\ grid_out.min_step = Frac(grid_out.min_idx, StepDivisor)
        /\ \A k \in DOMAIN grid_out.r2_vals : RLeq(SelectedScore, grid_out.r2_vals[k])
        /\ \A k \in 1..grid_out.min_idx : RLess(SelectedScore, grid_out.r2_vals[k])

\* The same, restricted to searches in which every score is a number.
AllScoresDefined == \A k \in DOMAIN grid_out.r2_vals : ~IsNaN(grid_out.r2_vals[k])

C9_HoldsWhenDefined == (GridDone /\ AllScoresDefined) => C9_SelectsSmallestMinimum

\* A search in which a candidate with an undefined score is selected although
\* other candidates have a score.
C9_UndefinedScoreSelected ==
    /\ GridDone
    /\ IsNaN(SelectedScore)
    /\ \E k \in DOMAIN grid_out.r2_vals : ~IsNaN(grid_out.r2_vals[k])

\* A search with a tie for the minimum between two different candidates.
C9_TieReached ==
    /\ GridDone /\ AllScoresDefined
    /\ \E k \in DOMAIN grid_out.r2_vals :
          k # grid_out.min_idx + 1 /\ REq(grid_out.r2_vals[k], SelectedScore)
    /\ Len(grid_in.rawS.val) > 1

-----------------------------------------------------------------------------
(* C1, C2: the analysis window                                              *)

\* Positions of run() at which the engine has been constructed.
Constructed ==
    pc \in {"constructed", "exit", "returned", "brC", "SOC", "raised", "final",
            "calculated", "done"}

\* Positions at which self.TCA_AE_hourly holds the aligned frame.
FrameHeld == pc \in {"brC", "SOC", "raised", "final", "calculated", "done"}

TsSeq(df) == [i \in DOMAIN df |-> df[i]["Date_and_Time"]]

InOriginalWindow(ts) == arg_start <= ts /\ ts < arg_end + DaySeconds

\* C1: the rows of the final output table are exactly the aligned-frame rows
\* whose timestamp falls in the user's original [start, end], every bucket of
\* the original end day included, and never a row of the extended part only.
C1_OutputIsOriginalWindow ==
    pc = "done" =>
        TsSeq(final_df) = SelectSeq(TsSeq(TCA_AE_hourly), InOriginalWindow)

\* What the final filter does keep: the rows from the start date up to
\* midnight of the extended end date, both included.
C1_OutputIsUpToExtendedMidnight ==
    pc = "done" =>
        TsSeq(final_df) = SelectSeq(TsSeq(TCA_AE_hourly),
                                    LAMBDA ts : arg_start <= ts /\ ts <= end_date)

\* An output that holds a row of the extended part of the window.
C1_ExtendedRowEmitted ==
    /\ pc = "done"
    /\ \E i \in DOMAIN final_df : final_df[i]["Date_and_Time"] >= arg_end + DaySeconds

\* An output that lacks a bucket of the original end day.
C1_EndDayRowDropped ==
    /\ pc = "done"
    /\ \E i \in DOMAIN TCA_AE_hourly :
          /\ InOriginalWindow(TCA_AE_hourly[i]["Date_and_Time"])
          /\ \A k \in DOMAIN final_df :
                final_df[k]["Date_and_Time"] # TCA_AE_hourly[i]["Date_and_Time"]

WindowDays == ((end_date - start_date) \div DaySeconds) + 1

RequestedDays == ((arg_end - arg_start) \div DaySeconds) + 1

\* C2: after construction the internal window length in days is a multiple of
\* Time_Delta; the end date is moved forward by fewer than Time_Delta days, to
\* the nearest date giving such a length, and not at all when the requested
\* length already is a multiple; the start date is never changed.
C2_WindowIsWholeChunks ==
    Constructed =>
        /\ start_date = arg_start
        /\ WindowDays % Time_Delta = 0
        /\ end_date >= arg_end
        /\ end_date - arg_end < Time_Delta * DaySeconds
        /\ (end_date - arg_end) % DaySeconds = 0
        /\ \A k \in 0..(Time_Delta - 1) :
              (RequestedDays + k) % Time_Delta = 0
                  => end_date <= arg_end + k * DaySeconds
        /\ (RequestedDays % Time_Delta = 0 => end_date = arg_end)

\* A construction that moved the end date forward by two days.
C2_ExtendedByTwoDays ==
    /\ Constructed
    /\ end_date = arg_end + 2 * DaySeconds
    /\ Time_Delta = 3

-----------------------------------------------------------------------------
(* C4, C5, C6: the aligned frame                                            *)

StrictlyIncreasing(s) == \A i \in 1..(Len(s) - 1) : s[i] < s[i + 1]

\* C4: the bucket timestamps of the aligned frame are strictly increasing
\* (hence without duplicates); no later step adds, duplicates or reorders
\* rows; and the final output, a selection of those rows in their order, is
\* strictly chronological too.
C4_Chronological ==
    /\ [](FrameHeld => StrictlyIncreasing(TsSeq(TCA_AE_hourly)))
    /\ [][FrameHeld => TsSeq(TCA_AE_hourly') = TsSeq(TCA_AE_hourly)]_vars
    /\ [](pc = "done" =>
            /\ StrictlyIncreasing(TsSeq(final_df))
            /\ TsSeq(final_df) =
                  SelectSeq(TsSeq(TCA_AE_hourly),
                            LAMBDA ts : \E k \in DOMAIN final_df :
                                            final_df[k]["Date_and_Time"] = ts))

\* A finished run over a frame in which one bucket averages two raw rows and
\* the two sources interleave.
C4_InterleavedOutput ==
    /\ pc = "done"
    /\ tca_table = TcaNoon /\ ae33_table = Ae33Twice
    /\ avg_interval_seconds = 1800
    /\ Len(final_df) >= 4

\* The bucket key of a raw timestamp, and the raw rows the query reads.
KeyOf(ts) == ts - (ts % avg_interval_seconds)

InMarginedWindow(ts) ==
    /\ start_date - Time_Delta * DaySeconds <= ts
    /\ ts < end_date + (Time_Delta + 1) * DaySeconds

TcaKeys == {KeyOf(r.StartTimeLocal) : r \in {x \in tca_table : InMarginedWindow(x.StartTimeLocal)}}

Ae33Keys == {KeyOf(r.datetime) : r \in {x \in ae33_table : InMarginedWindow(x.datetime)}}

RowsAt(df, b) == {i \in DOMAIN df : df[i]["Date_and_Time"] = b}

\* C5: the bucket keys of the aligned frame are the union of the two sources'
\* bucket keys within the margined window: each key of either source appears
\* exactly once, and a bucket with data from neither source is never a row.
C5_UnionOfSourceBuckets ==
    /\ FrameHeld =>
          \A b \in TcaKeys \cup Ae33Keys \cup Timestamps(TCA_AE_hourly) :
              Cardinality(RowsAt(TCA_AE_hourly, b)) =
                  IF b \in TcaKeys \cup Ae33Keys THEN 1 ELSE 0
    /\ pc = "returned" => TcaKeys \cup Ae33Keys = {}

\* A frame with a bucket of both sources and a bucket of one source only,
\* from tables holding raw rows that the margined window leaves out.
C5_MixedBuckets ==
    /\ pc = "brC"
    /\ TcaKeys \cap Ae33Keys # {}
    /\ TcaKeys # Ae33Keys
    /\ \E r \in tca_table : ~InMarginedWindow(r.StartTimeLocal)

\* C6: in every row handed to the regression and derived-quantity stages, a
\* bucket without AE33 raw rows has B-abs1..B-abs7 all equal to -99 whatever
\* the calibration constants, a bucket without TCA raw rows has TCconc, CO2,
\* EC, OC and AE33_BC6 equal to -99, and the fields of a source that has rows
\* in the bucket are not sentinel-filled.
C6_SentinelFill ==
    pc \in {"brC", "SOC", "final"} =>
        \A i \in DOMAIN TCA_AE_hourly :
            LET row == TCA_AE_hourly[i]
                b == row["Date_and_Time"]
            IN  /\ \A k \in DOMAIN BAbsColumns :
                      REq(row[BAbsColumns[k]], Sentinel) <=> (b \notin Ae33Keys)
                /\ \A k \in DOMAIN TcaColumns :
                      REq(row[TcaColumns[k]], Sentinel) <=> (b \notin TcaKeys)

\* The same for the TCA fields alone, which are not scaled.
C6_TcaSentinelFill ==
    pc \in {"brC", "SOC", "final"} =>
        \A i \in DOMAIN TCA_AE_hourly :
            \A k \in DOMAIN TcaColumns :
                REq(TCA_AE_hourly[i][TcaColumns[k]], Sentinel)
                    <=> (TCA_AE_hourly[i]["Date_and_Time"] \notin TcaKeys)

\* The same for the absorption fields when every calibration constant is 1000.
C6_HoldsForUnitCalibration ==
    (pc \in {"brC", "SOC", "final"} /\ constants_cfg.BC = BCUnit) => C6_SentinelFill

-----------------------------------------------------------------------------
(* C7: the absorption-anchor rule                                           *)

IsSentinel(v) == v = <<SentinelValue, 1>>

\* C7: after calculate_final_columns, in every row in which B-abs2 or B-abs7
\* equals -99, the columns B-abs-ff, B-abs-bb, BC-ff, BC-bb, B-abs-Brc,
\* B-abs-BC and BrC-abs-Sec all equal -99.
C7_AnchorPropagation ==
    pc \in {"calculated", "done"} =>
        \A i \in DOMAIN TCA_AE_hourly :
            LET row == TCA_AE_hourly[i]
            IN  (IsSentinel(row["B-abs2"]) \/ IsSentinel(row["B-abs7"])) =>
                    \A c \in {"B-abs-ff", "B-abs-bb", "BC-ff", "BC-bb", "B-abs-Brc",
                              "B-abs-BC", "BrC-abs-Sec"} : IsSentinel(row[c])

\* A calculated row in which only B-abs7 is the sentinel and TCconc is a
\* reading, so that the anchor rule alone forced the seven columns.
C7_AnchorAloneFired ==
    /\ pc = "calculated"
    /\ \E i \in DOMAIN TCA_AE_hourly :
          /\ IsSentinel(TCA_AE_hourly[i]["B-abs7"])
          /\ ~IsSentinel(TCA_AE_hourly[i]["B-abs2"])
          /\ ~IsSentinel(TCA_AE_hourly[i]["TCconc"])
          /\ IsSentinel(TCA_AE_hourly[i]["B-abs-Brc"])

-----------------------------------------------------------------------------
(* C10: which chunks are regressed                                          *)

\* The claimed condition on the chunk that starts at start_: its rows cover
\* at least 3 distinct calendar days, and each of the two series has a value
\* in it that is neither -99 nor missing.
ClaimedEligible(inst) ==
    LET rows == {i \in DOMAIN TCA_AE_hourly :
                    /\ TCA_AE_hourly[i]["Date_and_Time"] >= start_
                    /\ TCA_AE_hourly[i]["Date_and_Time"] < start_ + Time_Delta * DaySeconds}
        days == {TCA_AE_hourly[i]["Date_and_Time"] \div DaySeconds : i \in rows}
        HasReading(c) == \E i \in rows : /\ TCA_AE_hourly[i][c] # NaN
                                         /\ ~IsSentinel(TCA_AE_hourly[i][c])
    IN  /\ Cardinality(days) >= 3
        /\ HasReading(inst.raw)
        /\ HasReading(inst.ref)

\* The step enters the regression of the current chunk: it ends with the
\* chunk's plot saved, or with the exception np.corrcoef raised in it.
RegressionEntered ==
    \/ Len(rsquared_plots') = Len(rsquared_plots) + 1
    \/ pc' = "raised"

\* C10: a chunk is regressed if and only if its rows cover at least 3
\* distinct calendar days and each of the two series of the instance has at
\* least one value in the chunk that is neither -99 nor missing.
C10_RegressedIffEligible ==
    [][\A pass \in {<<"brC", BrCInstance>>, <<"SOC", SOCInstance>>} :
          (pc = pass[1] /\ LoopContinues) =>
              (RegressionEntered <=> ClaimedEligible(pass[2]))]_vars

\* A saved SOC plot of a chunk with exactly 3 distinct days and exactly one
\* valid reading in each of the two series.
C10_ThreeDaysOneReading ==
    /\ pc = "SOC"
    /\ rsquared_plots # <<>>
    /\ LET plot == rsquared_plots[Len(rsquared_plots)]
           rows == {i \in DOMAIN TCA_AE_hourly :
                       /\ TCA_AE_hourly[i]["Date_and_Time"] >= plot.start
                       /\ TCA_AE_hourly[i]["Date_and_Time"] < plot.chunk_end}
       IN  /\ plot.instance = "SOC"
           /\ Cardinality({TCA_AE_hourly[i]["Date_and_Time"] \div DaySeconds : i \in rows}) = 3
           /\ Cardinality({i \in rows : ~IsSentinel(TCA_AE_hourly[i]["OC"])}) = 1
           /\ Cardinality({i \in rows : ~IsSentinel(TCA_AE_hourly[i]["AE33_BC6"])}) = 1

\* A regression that ended with the exception of np.corrcoef.
C10_RaisedReached == pc = "raised"

\* A chunk of 2 distinct days and at least 4 rows, skipped.
C10_TwoDaysManyRows ==
    /\ pc = "brC"
    /\ LoopContinues
    /\ Len(CurrentChunk) >= 4
    /\ UniqueDays(TCA_AE_hourly, CurrentChunk) = 2

-----------------------------------------------------------------------------
(* calculate_final_columns on its own: one drawn row in, the row out        *)

\* A row as the regression passes leave it, with the cells the sentinel pass
\* looks at drawn freely: a reading, the sentinel, or (where a column can hold
\* it) the missing marker.
DrawnRow(tc, b2, b7, soc, sec) ==
    [c \in {"Date_and_Time"} \cup Range(TcaColumns) \cup Range(BAbsColumns)
            \cup {"SOC", "BrC-abs-Sec"} |->
        CASE c = "Date_and_Time" -> 0
          [] c = "TCconc" -> tc
          [] c = "CO2" -> Num(5)
          [] c = "EC" -> Num(2)
          [] c = "OC" -> Num(3)
          [] c = "AE33_BC6" -> Num(1)
          [] c = "B-abs2" -> b2
          [] c = "B-abs7" -> b7
          [] c = "SOC" -> soc
          [] c = "BrC-abs-Sec" -> sec
          [] OTHER -> Num(2)]

DrawnRows ==
    {DrawnRow(tc, b2, b7, soc, sec) :
        tc \in {Sentinel, NaN, Num(6)}, b2 \in {Sentinel, Num(3)},
        b7 \in {Sentinel, Num(4)}, soc \in {NaN, Num(1)}, sec \in {NaN, Num(1)}}

InitFinal ==
    /\ pc = "final"
    /\ arg_start = 0 /\ arg_end = 0
    /\ constants_cfg \in Configs
    /\ avg_interval_seconds = 3600
    /\ tca_table = {} /\ ae33_table = {}
    /\ start_date = 0 /\ end_date = 0
    /\ \E row \in DrawnRows : TCA_AE_hourly = <<row>>
    /\ start_ = 0 /\ found_3day = FALSE
    /\ rsquared_plots = <<>>
    /\ final_df = <<>>
    /\ artifacts = {"run_dir", "plot_dir", "rsquared_dir"}
    /\ grid_in = None /\ grid_out = None
    /\ NoPrompt /\ queries = <<"fetch_hourly_data">> /\ NoTools

NextFinal == FinalColumns \/ Output

SpecFinal == InitFinal /\ [][NextFinal]_vars

-----------------------------------------------------------------------------
(* C8: the TCconc rule                                                      *)

\* C8: calculate_final_columns turns every row whose TCconc is -99 or missing
\* into a row in which SOC, POC, SOA, POA, AE33_BC6, BrC, BrC-abs-Sec,
\* BrC-abs-Prim, POA_BrC, SOA_BrC, POA_WtC, SOA_WtC, TCconc, CO2, EC, OC, BC-ff
\* and BC-bb all equal -99; the rule comes after the absorption-anchor rule, so
\* that when B-abs2 or B-abs7 is -99 as well, the seven columns of the anchor
\* rule are -99 too.
C8_TCconcPropagation ==
    [][pc = "final" =>
          \A i \in DOMAIN TCA_AE_hourly :
              LET row == TCA_AE_hourly[i]
                  out == TCA_AE_hourly'[i]
              IN  (IsSentinel(row["TCconc"]) \/ row["TCconc"] = NaN) =>
                      /\ \A c \in {"SOC", "POC", "SOA", "POA", "AE33_BC6", "BrC",
                                   "BrC-abs-Sec", "BrC-abs-Prim", "POA_BrC", "SOA_BrC",
                                   "POA_WtC", "SOA_WtC", "TCconc", "CO2", "EC", "OC",
                                   "BC-ff", "BC-bb"} : IsSentinel(out[c])
                      /\ (IsSentinel(row["B-abs2"]) \/ IsSentinel(row["B-abs7"])) =>
                            \A c \in {"B-abs-ff", "B-abs-bb", "BC-ff", "BC-bb",
                                      "B-abs-Brc", "B-abs-BC", "BrC-abs-Sec"} :
                                IsSentinel(out[c])]_vars

\* A calculated row in which both rules fired: TCconc and B-abs2 are the
\* sentinel, and so are columns of either forced set.
C8_BothRulesFired ==
    /\ pc = "calculated"
    /\ \E i \in DOMAIN TCA_AE_hourly :
          /\ IsSentinel(TCA_AE_hourly[i]["TCconc"])
          /\ IsSentinel(TCA_AE_hourly[i]["B-abs2"])
          /\ IsSentinel(TCA_AE_hourly[i]["CO2"])
          /\ IsSentinel(TCA_AE_hourly[i]["B-abs-Brc"])
          /\ IsSentinel(TCA_AE_hourly[i]["BC-ff"])

-----------------------------------------------------------------------------
(* An end-to-end run: hourly readings of both sources over six days         *)

\* The hours of six consecutive days, counted from the first midnight.
E2EHours == 0..(6 * 24 - 1)

\* One TCA reading and one AE33 reading in every hour, `offset` seconds after
\* the hour; `shape` picks the value pattern.
E2ERef(h, shape) == 1 + ((h + shape) % 2)

E2ERaw(h, shape) == 2 + (((h + shape) \div 2) % 2) + ((h + shape) % 2)

E2ETca(offset, shape) ==
    {TcaRow(h + 1, h * 3600 + offset, E2ERaw(h, shape), E2ERef(h, shape)) : h \in E2EHours}

E2EAe33(offset, shape) ==
    {Ae33Row(h * 3600 + offset, E2ERaw(h, shape), E2ERef(h, shape)) : h \in E2EHours}

InitE2E ==
    /\ InitRun
    /\ arg_start = Days(0) /\ arg_end = Days(5)
    /\ constants_cfg \in {c \in Configs : c.Time_Delta = 3}
    /\ avg_interval_seconds = 3600
    /\ \E offset \in {0, 600, 1800}, shape \in {0, 1} :
          /\ tca_table = E2ETca(offset, shape)
          /\ ae33_table = E2EAe33(offset, shape)

NextE2E ==
    \/ Construct
    \/ RunExcelOpen
    \/ RunFetch
    \/ BrCRegress
    \/ BrCDone
    \/ SOCRegress
    \/ SOCDone
    \/ FinalColumns
    \/ Output

SpecE2E == InitE2E /\ [][NextE2E]_vars

-----------------------------------------------------------------------------
(* C3: the six-day scenario                                                 *)

PlotsOf(name) == SelectSeq(rsquared_plots, LAMBDA plot : plot.instance = name)

NoneMissing(df, c) == \A i \in DOMAIN df : df[i][c] # NA

\* C3: the run over six days of hourly readings with Time_Delta = 3 and a
\* bucket width of 3600 s forms exactly 2 regressable chunks, and its final
\* output has exactly 144 rows (6 x 24), none of which carries the missing
\* marker in SOC or BrC-abs-Sec.
C3_SixDayScenario ==
    pc = "done" =>
        /\ Len(PlotsOf("BrC")) = 2
        /\ Len(PlotsOf("SOC")) = 2
        /\ Len(final_df) = 6 * 24
        /\ NoneMissing(final_df, "SOC")
        /\ NoneMissing(final_df, "BrC-abs-Sec")

\* What the run does produce: the two chunks, no missing marker, and the 121
\* rows from the first midnight to the midnight of the sixth day.
C3_SixDayScenarioAsRun ==
    pc = "done" =>
        /\ Len(PlotsOf("BrC")) = 2
        /\ Len(PlotsOf("SOC")) = 2
        /\ Len(TCA_AE_hourly) = 6 * 24
        /\ Len(final_df) = 5 * 24 + 1
        /\ NoneMissing(final_df, "SOC")
        /\ NoneMissing(final_df, "BrC-abs-Sec")

-----------------------------------------------------------------------------
(* C11: what a regression pass leaves in the derived column                 *)

\* The saved plots of the instance whose chunk holds the timestamp.
PlotsHolding(inst, ts) ==
    {k \in DOMAIN PlotsOf(inst.name) :
        PlotsOf(inst.name)[k].start <= ts /\ ts < PlotsOf(inst.name)[k].chunk_end}

DerivedAsClaimed(inst) ==
    PlotsOf(inst.name) # <<>> =>
        \A i \in DOMAIN TCA_AE_hourly :
            LET row == TCA_AE_hourly[i]
                own == PlotsHolding(inst, row["Date_and_Time"])
            IN  IF own # {}
                THEN \A k \in own :
                        row[inst.out] =
                            RSub(row[inst.raw],
                                 RMul(PlotsOf(inst.name)[k].min_step, row[inst.ref]))
                ELSE row[inst.out] = NaN

\* C11: after a regression pass in which a chunk was regressable, every row
\* of a regressable chunk, the rows with a -99 raw or reference value
\* included, holds raw - c* x reference with the c* of its own chunk, and
\* every row of a chunk that was not regressable or of no chunk holds the
\* missing marker.
C11_DerivedColumnAfterPass ==
    /\ pc \in {"SOC", "final"} => DerivedAsClaimed(BrCInstance)
    /\ pc = "final" => DerivedAsClaimed(SOCInstance)

\* The SOC pass has ended with a row of a regressed chunk computed from an
\* OC of -99, and with a row outside the regressed chunk left missing.
C11_SentinelRowAndMissingRow ==
    /\ pc = "final"
    /\ PlotsOf("SOC") # <<>>
    /\ \E i \in DOMAIN TCA_AE_hourly :
          /\ PlotsHolding(SOCInstance, TCA_AE_hourly[i]["Date_and_Time"]) # {}
          /\ IsSentinel(TCA_AE_hourly[i]["OC"])
          /\ TCA_AE_hourly[i]["SOC"] # NaN
    /\ \E i \in DOMAIN TCA_AE_hourly :
          /\ PlotsHolding(SOCInstance, TCA_AE_hourly[i]["Date_and_Time"]) = {}
          /\ TCA_AE_hourly[i]["SOC"] = NaN

-----------------------------------------------------------------------------
(* C12: a pass without a regressable chunk                                   *)

ColumnAllMissing(c) ==
    \A i \in DOMAIN TCA_AE_hourly : TCA_AE_hourly[i][c] = NaN

\* C12: when a pass finds no regressable chunk, single-bucket frames whose
\* loop body never runs included, the derived column of the pass is the
\* missing marker in every row, the pass does not fail, and the run goes on
\* to the derived-quantity stage.
C12_NoRegressableChunk ==
    /\ [](/\ pc \in {"SOC", "final"} /\ PlotsOf("BrC") = <<>>
                => ColumnAllMissing("BrC-abs-Sec")
          /\ pc = "final" /\ PlotsOf("SOC") = <<>> => ColumnAllMissing("SOC")
          /\ pc = "raised" => found_3day)
    /\ [][/\ pc = "brC" /\ ~LoopContinues /\ ~found_3day
                => pc' = "SOC" /\ PlotsOf("BrC") = <<>>
          /\ pc = "SOC" /\ ~LoopContinues /\ ~found_3day
                => pc' = "final" /\ PlotsOf("SOC") = <<>>
          /\ pc = "final" => pc' = "calculated"]_vars

\* A frame of one bucket has gone through both passes without entering a
\* loop body, and both derived columns are missing.
C12_SingleBucketFrame ==
    /\ pc = "final"
    /\ Len(TCA_AE_hourly) = 1
    /\ rsquared_plots = <<>>
    /\ ColumnAllMissing("BrC-abs-Sec")
    /\ ColumnAllMissing("SOC")

-----------------------------------------------------------------------------
(* C13: the fossil-fuel / biomass-burning apportionment of the absorption    *)

PowFF == RPow(RatioIRBlue, -constants_cfg.AAE_ff)
PowBB == RPow(RatioIRBlue, -constants_cfg.AAE_bb)

\* Rows whose two absorption inputs are neither -99 nor missing.
ApportionedRows ==
    {i \in DOMAIN TCA_AE_hourly :
        IsGood(TCA_AE_hourly[i]["B-abs2"]) /\ IsGood(TCA_AE_hourly[i]["B-abs7"])}

\* C13: for non-sentinel inputs B-abs-ff + B-abs-bb = B-abs2 and
\* B-abs-ff x r^(-AAE_ff) + B-abs-bb x r^(-AAE_bb) = B-abs7, r = 950/470.
C13_ComplementaryDecomposition ==
    pc = "calculated" =>
        \A i \in ApportionedRows :
            LET row == TCA_AE_hourly[i]
            IN  /\ REq(RAdd(row["B-abs-ff"], row["B-abs-bb"]), row["B-abs2"])
                /\ REq(RAdd(RMul(row["B-abs-ff"], PowFF), RMul(row["B-abs-bb"], PowBB)),
                       row["B-abs7"])

\* What the code's two columns satisfy instead: the same two equations with
\* the sign of B-abs-bb reversed.
C13_DecompositionWithNegatedBb ==
    pc = "calculated" =>
        \A i \in ApportionedRows :
            LET row == TCA_AE_hourly[i]
            IN  /\ REq(RSub(row["B-abs-ff"], row["B-abs-bb"]), row["B-abs2"])
                /\ REq(RSub(RMul(row["B-abs-ff"], PowFF), RMul(row["B-abs-bb"], PowBB)),
                       row["B-abs7"])

\* The formulas have run on a row with both absorption inputs valid, and
\* the sum of the two columns differs from B-abs2.
C13_SumDiffersFromBlue ==
    /\ pc = "calculated"
    /\ \E i \in ApportionedRows :
          ~REq(RAdd(TCA_AE_hourly[i]["B-abs-ff"], TCA_AE_hourly[i]["B-abs-bb"]),
               TCA_AE_hourly[i]["B-abs2"])

-----------------------------------------------------------------------------
(* C14: a required configuration key is absent                               *)

\* C14: when a required key of constants.conf or db.conf is absent, the
\* program fails before it issues any query to the database and before it
\* creates any output directory or artifact.
C14_FailsBeforeAnyQuery ==
    absent_keys # {} =>
        /\ queries = <<>>
        /\ artifacts = {}
        /\ pc \notin {"constructed"}

\* The part that the code keeps: with a key absent the engine is never
\* constructed and nothing is created; with dbPath absent no query is issued.
C14_NoOutputWithAbsentKey ==
    /\ absent_keys # {} => artifacts = {} /\ pc # "constructed"
    /\ "dbPath" \in absent_keys => queries = <<>>

\* BC1 is absent, and the constructor has exited after main() issued its four
\* queries and took a date range and an interval at the prompts.
C14_QueriedBeforeFailing ==
    /\ absent_keys = {"BC1"}
    /\ pc = "exit"
    /\ queries = MainQueries
    /\ user_interval \in DOMAIN AllowedIntervalsPrompt

-----------------------------------------------------------------------------
(* C15, C16: the two early ends of run()                                     *)

Directories == {"run_dir", "plot_dir", "rsquared_dir"}

\* No regression, no derived column, no sheet and no plot: the state of the
\* engine is the one its constructor left.
NothingComputedOrWritten ==
    /\ TCA_AE_hourly = <<>>
    /\ rsquared_plots = <<>>
    /\ final_df = <<>>
    /\ artifacts = Directories

\* C15: when the bucketed query over the margined window returns no rows,
\* run() returns without running a regression or the derived calculation and
\* without writing any sheet or plot.
C15_EmptyFetchReturns ==
    /\ [](pc = "returned" =>
             /\ NothingComputedOrWritten
             /\ queries = <<"fetch_hourly_data">>
             /\ Fetched = <<>>)
    /\ [][/\ pc = "constructed" /\ Fetched = <<>> => pc' \in {"returned", "exit"}
          /\ pc # "returned"]_vars

\* run() has returned on a window that holds no reading although the AE33
\* table is populated.
C15_ReturnedOnPopulatedTable ==
    /\ pc = "returned"
    /\ ae33_table # {}

\* C16: when the spreadsheet is held open by another process, run() exits
\* with a failure before any data is fetched, before any regression or
\* derived computation, and before anything is written.
C16_ExcelOpenAborts ==
    /\ [](pc = "exit" => NothingComputedOrWritten /\ queries = <<>>)
    /\ [][pc # "exit"]_vars

\* run() has exited on an open workbook although the window holds readings.
C16_ExitedWithDataAvailable ==
    /\ pc = "exit"
    /\ Fetched # <<>>

-----------------------------------------------------------------------------
(* C17: the window handed to the engine lies in the overlap of the tables    *)

Ae33Times == {r.datetime : r \in ae33_table}

TcaTimes == {r.StartTimeLocal : r \in tca_table}

\* Both tables hold a reading at or before `from` and one at or after `to`,
\* and `from` is not after `to`.
InsideBothSources(from, to) ==
    /\ \E t \in Ae33Times : t <= from
    /\ \E t \in TcaTimes : t <= from
    /\ from <= to
    /\ \E t \in Ae33Times : to <= t
    /\ \E t \in TcaTimes : to <= t

\* The time ranges of the two tables have an instant in common.
SourcesOverlap ==
    /\ \E a \in Ae33Times, t \in TcaTimes : a <= t
    /\ \E a \in Ae33Times, t \in TcaTimes : t <= a

LeftDatePrompt == pc \in {"interval", "start", "constructed"}

\* C17: without an overlap of the two tables the program ends before the
\* prompt; at the prompt 'exit' ends the program, a range that does not
\* parse, starts before the overlap, ends after it or ends before its start
\* is asked again, and the range with which the loop is left and the engine
\* constructed satisfies overlap start <= start <= end <= overlap end.
C17_WindowInsideOverlap ==
    /\ [](/\ pc \in {"prompt"} \cup {"interval", "start", "constructed"}
                => SourcesOverlap
          /\ LeftDatePrompt => InsideBothSources(arg_start, arg_end)
          /\ pc = "constructed" => start_date = arg_start)
    /\ [][pc = "prompt" =>
            IF IsExit(user_start') \/ IsExit(user_end')
            THEN pc' = "exit"
            ELSE IF /\ Parses(user_start') /\ Parses(user_end')
                    /\ InsideBothSources(Days(user_start'.day), Days(user_end'.day))
                 THEN /\ pc' = "interval"
                      /\ arg_start' = Days(user_start'.day)
                      /\ arg_end' = Days(user_end'.day)
                 ELSE pc' = "prompt" /\ UNCHANGED <<arg_start, arg_end>>]_vars

\* The engine has been constructed on a range of more than one day that
\* starts after the start of the overlap.
C17_ConstructedInsideOverlap ==
    /\ pc = "constructed"
    /\ arg_start < arg_end
    /\ \E t \in Ae33Times : t < arg_start
    /\ \E t \in TcaTimes : t < arg_start

-----------------------------------------------------------------------------
(* C18: the rows a candidate's score is computed over                        *)

Passes == {<<"brC", BrCInstance>>, <<"SOC", SOCInstance>>}

\* The rows of the current chunk in which both signals of the instance are
\* neither -99 nor missing, as a series of the column.
BothGoodSeries(inst, col) ==
    LET idx == SelectSeq(CurrentChunk,
                         LAMBDA i : /\ IsGood(TCA_AE_hourly[i][inst.raw])
                                    /\ IsGood(TCA_AE_hourly[i][inst.ref]))
    IN  [idx |-> idx, val |-> [k \in DOMAIN idx |-> TCA_AE_hourly[idx[k]][col]]]

\* A row of the current chunk with exactly one of the two signals valid.
OneSidedRows(inst) ==
    {i \in Range(CurrentChunk) :
        IsGood(TCA_AE_hourly[i][inst.raw]) # IsGood(TCA_AE_hourly[i][inst.ref])}

\* C18: the scores of a chunk are computed over exactly the rows in which
\* both the raw and the reference signal are neither -99 nor missing; rows
\* with one valid signal contribute nothing, and never make the pass fail.
C18_ScoredOverBothValidRows ==
    [][\A pass \in Passes :
          (pc = pass[1] /\ LoopContinues /\ RegressionEntered) =>
              /\ pc' # "raised"
              /\ LET g == GridSearch(BothGoodSeries(pass[2], pass[2].raw),
                                     BothGoodSeries(pass[2], pass[2].ref),
                                     pass[2].grid)
                     saved == rsquared_plots'[Len(rsquared_plots')]
                 IN  saved.min_step = g.min_step /\ saved.min_r2 = g.min_r2]_vars

\* The same, for the chunks in which no row has exactly one valid signal.
C18_HoldsWithoutOneSidedRows ==
    [][\A pass \in Passes :
          (pc = pass[1] /\ LoopContinues /\ RegressionEntered
                /\ OneSidedRows(pass[2]) = {}) =>
              /\ pc' # "raised"
              /\ LET g == GridSearch(BothGoodSeries(pass[2], pass[2].raw),
                                     BothGoodSeries(pass[2], pass[2].ref),
                                     pass[2].grid)
                     saved == rsquared_plots'[Len(rsquared_plots')]
                 IN  saved.min_step = g.min_step /\ saved.min_r2 = g.min_r2]_vars

\* The BrC pass has failed in a chunk that holds a row whose B-abs2 is valid
\* and whose B-abs6 is -99.
C18_FailedOnOneSidedRow ==
    /\ pc = "raised"
    /\ \E i \in OneSidedRows(BrCInstance) : IsGood(TCA_AE_hourly[i]["B-abs2"])

-----------------------------------------------------------------------------
(* C19: the rows of the requested window and the chunks that hold them       *)

PassStates == {"brC", "SOC", "final"}

\* Rows of the frame whose timestamp lies on a day of the requested window.
RequestedRows ==
    {i \in DOMAIN TCA_AE_hourly :
        /\ arg_start <= TCA_AE_hourly[i]["Date_and_Time"]
        /\ TCA_AE_hourly[i]["Date_and_Time"] < arg_end + DaySeconds}

\* Start of the window of the grid min, min + Time_Delta days, ... that holds ts.
GridStart(ts) ==
    LET min_dt == MinOf(Timestamps(TCA_AE_hourly))
        width == Time_Delta * DaySeconds
    IN  min_dt + ((ts - min_dt) \div width) * width

\* Calendar days with a row in the window of Time_Delta days from `from`.
DaysFrom(from) ==
    {TCA_AE_hourly[i]["Date_and_Time"] \div DaySeconds :
        i \in {j \in DOMAIN TCA_AE_hourly :
                  /\ from <= TCA_AE_hourly[j]["Date_and_Time"]
                  /\ TCA_AE_hourly[j]["Date_and_Time"] < from + Time_Delta * DaySeconds}}

InEligibleChunk(i) ==
    LET from == GridStart(TCA_AE_hourly[i]["Date_and_Time"])
    IN  /\ from < MaxOf(Timestamps(TCA_AE_hourly))
        /\ Cardinality(DaysFrom(from)) >= MinDistinctDays

\* C19: every row of the frame that lies in the requested window belongs to
\* a visited chunk of Time_Delta days that meets the distinct-day condition,
\* wherever the earliest reading lies.
C19_WindowRowsInEligibleChunks ==
    pc \in PassStates => \A i \in RequestedRows : InEligibleChunk(i)

\* Both passes have ended on a frame with readings on 3 days; a row of the
\* requested window with valid OC and AE33_BC6 is in no eligible chunk and
\* its SOC is missing.
C19_ValidRowLeftMissing ==
    /\ pc = "final"
    /\ Cardinality({t \div DaySeconds : t \in Timestamps(TCA_AE_hourly)}) >= MinDistinctDays
    /\ \E i \in RequestedRows :
          /\ ~InEligibleChunk(i)
          /\ IsGood(TCA_AE_hourly[i]["OC"])
          /\ IsGood(TCA_AE_hourly[i]["AE33_BC6"])
          /\ TCA_AE_hourly[i]["SOC"] = NaN

-----------------------------------------------------------------------------
(* C20: the chunks a pass visits                                             *)

InPass == pc \in {"brC", "SOC"}

MinDt == MinOf(Timestamps(TCA_AE_hourly))

MaxDt == MaxOf(Timestamps(TCA_AE_hourly))

ChunkWidth == Time_Delta * DaySeconds

\* start_ is a point min + k x Time_Delta days of the grid, and every grid
\* point before it is before the maximum timestamp.
OnChunkGrid ==
    /\ start_ >= MinDt
    /\ (start_ - MinDt) % ChunkWidth = 0
    /\ start_ > MinDt => start_ - ChunkWidth < MaxDt

\* Every row below the maximum timestamp lies in exactly one window of the
\* grid that starts before the maximum.
RowsInOneChunk ==
    \A i \in DOMAIN TCA_AE_hourly :
        LET ts == TCA_AE_hourly[i]["Date_and_Time"]
        IN  ts < MaxDt =>
                Cardinality({k \in 0..((MaxDt - MinDt) \div ChunkWidth) :
                                /\ MinDt + k * ChunkWidth < MaxDt
                                /\ MinDt + k * ChunkWidth <= ts
                                /\ ts < MinDt + (k + 1) * ChunkWidth}) = 1

\* C20: each pass visits the windows [min + k x Time_Delta days,
\* min + (k + 1) x Time_Delta days), k = 0, 1, ..., from the minimum
\* timestamp of the frame and as long as the window starts before the
\* maximum timestamp: in chronological order, without overlap or gap, every
\* row below the maximum in exactly one window, and with the same
\* boundaries in both passes.
C20_ChunkPartition ==
    /\ [](InPass => OnChunkGrid /\ RowsInOneChunk)
    /\ [][/\ InPass' /\ pc' # pc =>
                /\ start_' = MinOf(Timestamps(TCA_AE_hourly'))
                /\ Timestamps(TCA_AE_hourly') # {}
                /\ pc = "brC" => Timestamps(TCA_AE_hourly') = Timestamps(TCA_AE_hourly)
          /\ InPass /\ pc' = pc =>
                /\ start_ < MaxDt
                /\ start_' = start_ + ChunkWidth
                /\ Timestamps(TCA_AE_hourly') = Timestamps(TCA_AE_hourly)
                /\ Len(rsquared_plots') > Len(rsquared_plots) =>
                      /\ rsquared_plots'[Len(rsquared_plots')].start = start_
                      /\ rsquared_plots'[Len(rsquared_plots')].chunk_end = start_'
          /\ InPass /\ pc' \notin {pc, "raised"} => ~(start_ < MaxDt)]_vars

\* The SOC pass is about to visit its second window, with Time_Delta of
\* more than one day and a BrC plot saved for the first window.
C20_SecondWindowOfSecondPass ==
    /\ pc = "SOC"
    /\ Time_Delta > 1
    /\ start_ = MinDt + ChunkWidth
    /\ start_ < MaxDt
    /\ PlotsOf("BrC") # <<>>

-----------------------------------------------------------------------------
(* C21: what one chunk of a pass may change                                  *)

\* The row is as it was but for the derived column, and a row outside the
\* current chunk keeps its derived value (missing, when the column is new).
OnlyOwnRowsChanged(inst) ==
    /\ DOMAIN TCA_AE_hourly' = DOMAIN TCA_AE_hourly
    /\ \A i \in DOMAIN TCA_AE_hourly :
          LET old == TCA_AE_hourly[i]
              new == TCA_AE_hourly'[i]
              ts == old["Date_and_Time"]
          IN  /\ \A c \in DOMAIN old \ {inst.out} : new[c] = old[c]
              /\ ~(start_ <= ts /\ ts < start_ + ChunkWidth) =>
                    new[inst.out] = IF inst.out \in DOMAIN old THEN old[inst.out]
                                    ELSE NaN

\* C21: a chunk that fails the eligibility test is skipped, the frame is
\* left as it was and the pass goes on with the next chunk; a chunk that is
\* regressed changes the derived column in the rows of its own
\* [start, start + Time_Delta days) only, and no other column.
C21_ChunkTouchesOwnRows ==
    [][\A pass \in Passes :
          (pc = pass[1] /\ LoopContinues) =>
              IF ~ClaimedEligible(pass[2])
              THEN /\ pc' = pc
                   /\ TCA_AE_hourly' = TCA_AE_hourly
                   /\ start_' = start_ + ChunkWidth
              ELSE pc' = "raised" \/ OnlyOwnRowsChanged(pass[2])]_vars

\* In the SOC pass a chunk was regressed and a later chunk was skipped: the
\* loop is past the end of the last saved chunk.
C21_SkippedAfterRegressed ==
    /\ pc = "SOC"
    /\ PlotsOf("SOC") # <<>>
    /\ start_ > PlotsOf("SOC")[Len(PlotsOf("SOC"))].chunk_end
    /\ \E i \in DOMAIN TCA_AE_hourly : TCA_AE_hourly[i]["SOC"] # NaN

-----------------------------------------------------------------------------
(* C22: the chunk loops end                                                  *)

\* The two passes are over, or the run has ended before or in them.
PassesOver == pc \in {"final", "raised", "returned", "exit", "crashed"}

\* C22: for every integer Time_Delta that the constructor does not reject
\* and every non-empty frame, each chunk loop ends after finitely many
\* chunks: the run reaches the end of the passes or fails.
C22_PassesTerminate == <>PassesOver

\* With a negative Time_Delta the BrC loop walked back in time until the
\* addition left the range of the timestamp type.
C22_EndedOutOfBounds ==
    /\ pc = "raised"
    /\ Time_Delta < 0
    /\ start_ < MinDt

-----------------------------------------------------------------------------
(* C23: a regressable chunk with fewer than 2 usable rows                    *)

\* The rows of the current chunk usable by the instance: both signals valid.
UsableRows(inst) == BothGoodSeries(inst, inst.raw).idx

\* The step regresses a chunk and ends as the claim says: no exception, every
\* score 0, coefficient 0.0, derived value equal to the raw signal.
ZeroCoefficientStep(inst) ==
    /\ pc' # "raised"
    /\ LET g == GridSearch(GoodSeries(TCA_AE_hourly, CurrentChunk, inst.raw),
                           GoodSeries(TCA_AE_hourly, CurrentChunk, inst.ref),
                           inst.grid)
       IN  \A k \in DOMAIN g.r2_vals : REq(g.r2_vals[k], Num(0))
    /\ rsquared_plots'[Len(rsquared_plots')].min_step = Num(0)
    /\ \A i \in Range(CurrentChunk) :
          TCA_AE_hourly'[i][inst.out] = TCA_AE_hourly[i][inst.raw]

C23_HoldsWithoutOneSidedRows ==
    [][\A pass \in Passes :
          (pc = pass[1] /\ LoopContinues /\ RegressionEntered
                /\ Len(UsableRows(pass[2])) < 2
                /\ OneSidedRows(pass[2]) = {}) =>
              ZeroCoefficientStep(pass[2])]_vars

C23_SingleRowRegressed ==
    /\ pc \in {"brC", "SOC"}
    /\ rsquared_plots # <<>>
    /\ LET saved == rsquared_plots[Len(rsquared_plots)]
           rows == {i \in DOMAIN TCA_AE_hourly :
                       /\ saved.start <= TCA_AE_hourly[i]["Date_and_Time"]
                       /\ TCA_AE_hourly[i]["Date_and_Time"] < saved.chunk_end}
           inst == IF saved.instance = BrCInstance.name THEN BrCInstance ELSE SOCInstance
       IN  /\ saved.min_step = Num(0)
           /\ Cardinality({i \in rows : IsGood(TCA_AE_hourly[i][inst.raw])
                                        /\ IsGood(TCA_AE_hourly[i][inst.ref])}) = 1
           /\ \A i \in rows : IsGood(TCA_AE_hourly[i][inst.raw])
                              = IsGood(TCA_AE_hourly[i][inst.ref])

-----------------------------------------------------------------------------
(* The engine and main() are not running: the state the other scripts see    *)

NoEngine ==
    /\ arg_start = None /\ arg_end = None
    /\ constants_cfg = None
    /\ start_date = None /\ end_date = None
    /\ TCA_AE_hourly = <<>>
    /\ start_ = None /\ found_3day = FALSE
    /\ rsquared_plots = <<>>
    /\ final_df = <<>>
    /\ artifacts = {}
    /\ grid_in = None /\ grid_out = None
    /\ NoPrompt /\ queries = <<>>

engineVars == <<arg_start, arg_end, constants_cfg, start_date, end_date, TCA_AE_hourly,
                start_, found_3day, rsquared_plots, final_df, artifacts, gridVars,
                promptVars, queries>>

-----------------------------------------------------------------------------
(* C24: the bucket key of a raw row                                          *)

\* Epoch seconds of raw readings, on and around the grid lines of the four
\* bucket widths.
BucketStamps ==
    {0, 1, 1199, 1200, 1799, 1800, 2399, 2400, 3599, 3600, 7199, 7200, 7201,
     86399, 86400, 88200}

InitBucket ==
    /\ pc = "bucket"
    /\ NoEngine
    /\ tca_table = {} /\ ae33_table = {}
    /\ avg_interval_seconds \in AllowedIntervals
    /\ timestamps \in BucketStamps \X BucketStamps
    /\ bucket = None /\ gaps_df = None /\ threshold_minutes = None
    /\ files = None /\ added = None /\ uploaded = None
    /\ menu_state = None /\ exitFile = None
    /\ menu_entry_index = None /\ launched = None

\* The bucket expression of the two CTEs, applied to two raw rows.
Bucketing ==
    /\ pc = "bucket"
    /\ bucket' = [k \in 1..2 |-> BucketOf(timestamps[k], avg_interval_seconds)]
    /\ pc' = "bucketed"
    /\ UNCHANGED <<engineVars, avg_interval_seconds, tca_table, ae33_table, timestamps,
                   gaps_df, threshold_minutes, files, added, uploaded, menu_state,
                   exitFile,
          menu_entry_index, launched>>

SpecBucket == InitBucket /\ [][Bucketing]_vars

\* The two timestamps lie between the same two consecutive grid lines.
SameGridCell(t1, t2, w) ==
    \E g \in 0..((t1 + t2) \div w) :
        /\ g * w <= t1 /\ t1 < (g + 1) * w
        /\ g * w <= t2 /\ t2 < (g + 1) * w

\* C24: for every raw row and every allowed bucket width w the key is a
\* multiple of w with key <= timestamp < key + w, and two rows have the same
\* key exactly when they lie between the same two grid lines.
C24_BucketKey ==
    pc = "bucketed" =>
        /\ avg_interval_seconds \in {1200, 1800, 3600, 7200}
        /\ \A k \in 1..2 :
              /\ bucket[k] % avg_interval_seconds = 0
              /\ bucket[k] <= timestamps[k]
              /\ timestamps[k] < bucket[k] + avg_interval_seconds
        /\ (bucket[1] = bucket[2])
              <=> SameGridCell(timestamps[1], timestamps[2], avg_interval_seconds)

\* Two rows one second short of 30 minutes apart share a 30-minute bucket.
C24_TwoRowsOneBucket ==
    /\ pc = "bucketed"
    /\ avg_interval_seconds = 1800
    /\ timestamps = <<1800, 3599>>
    /\ bucket = <<1800, 1800>>

-----------------------------------------------------------------------------
(* fetch_ae33_gaps / fetch_tca_gaps: the two gap queries of the report       *)

SecondsPerMinute == 60

\* The literal of the WHERE clause of fetch_ae33_gaps, in minutes.
Ae33GapMinutes == 1

\* The literal of the WHERE clause of fetch_tca_gaps, in minutes.
TcaGapMinutes == 60

\* WHERE ts >= 'start day' AND ts <= 'end day': the strings
\* 'YYYY-MM-DD HH:MM:SS' of the end day sort after 'YYYY-MM-DD'.
InGapRange(ts, since, until) ==
    /\ DateOf(ts) >= DateOf(since)
    /\ DateOf(ts) < DateOf(until)

\* The CTE: the timestamps of the window in ascending order; row k + 1
\* carries row k as its LAG.
OrderedTimestamps(stamps, since, until) ==
    SortedSeq({ts \in stamps : InGapRange(ts, since, until)})

\* (strftime('%s', ts) - strftime('%s', prev)) / 60: a division of integers.
WholeMinutes(prev, ts) == (ts - prev) \div SecondsPerMinute

\* ROUND(seconds / 60.0 / 60.0, 2), in hundredths of an hour.
RoundedHours(prev, ts) ==
    Frac(((ts - prev) * 100 + (SecondsPerMinute * SecondsPerMinute) \div 2)
             \div (SecondsPerMinute * SecondsPerMinute), 100)

\* The positions k of the ordered rows whose row k + 1 passes the WHERE of the
\* outer SELECT, ascending (ORDER BY prev_timestamp).
GapPositions(ordered, minutes) ==
    SelectSeq([k \in 1..(Len(ordered) - 1) |-> k],
              LAMBDA k : WholeMinutes(ordered[k], ordered[k + 1]) > minutes)

fetch_ae33_gaps(table, since, until) ==
    LET ordered == OrderedTimestamps({r.datetime : r \in table}, since, until)
        at == GapPositions(ordered, Ae33GapMinutes)
    IN  [n \in DOMAIN at |->
            [gap_start |-> ordered[at[n]], gap_end |-> ordered[at[n] + 1],
             minute_duration |-> WholeMinutes(ordered[at[n]], ordered[at[n] + 1])]]

fetch_tca_gaps(table, since, until) ==
    LET ordered == OrderedTimestamps({r.StartTimeLocal : r \in table}, since, until)
        at == GapPositions(ordered, TcaGapMinutes)
    IN  [n \in DOMAIN at |->
            [gap_start |-> ordered[at[n]], gap_end |-> ordered[at[n] + 1],
             gap_duration_hours |-> RoundedHours(ordered[at[n]], ordered[at[n] + 1])]]

\* AE33 readings a minute, 90 seconds, two minutes and a second apart, on
\* two days.
GapAe33Stamps == {0, 60, 150, 270, 271, 86400, 86490}

\* TCA readings an hour, 60 minutes 30 seconds and 61 minutes apart, on two
\* days.
GapTcaStamps == {0, 3600, 7230, 10890, 14490, 86400, 90030}

InitGaps ==
    /\ pc = "gaps"
    /\ NoEngine
    /\ avg_interval_seconds = None
    /\ \/ /\ \E S \in SUBSET GapAe33Stamps : ae33_table = {Ae33Row(ts, 1, 1) : ts \in S}
          /\ tca_table = {}
       \/ /\ \E S \in SUBSET GapTcaStamps :
                tca_table = {TcaRow(ts \div 30 + 1, ts, 1, 1) : ts \in S}
          /\ ae33_table = {}
    /\ timestamps \in {<<0, Days(1)>>, <<0, Days(2)>>}
    /\ bucket = None /\ gaps_df = None /\ threshold_minutes = None
    /\ files = None /\ added = None /\ uploaded = None
    /\ menu_state = None /\ exitFile = None
    /\ menu_entry_index = None /\ launched = None

gapsFixed == <<engineVars, avg_interval_seconds, tca_table, ae33_table, timestamps,
               bucket, threshold_minutes, files, added, uploaded, menu_state, exitFile,
          menu_entry_index, launched>>

\* df_ae33_gaps = self.fetch_ae33_gaps(self.start_date, self.end_date)
FetchAe33Gaps ==
    /\ pc = "gaps"
    /\ gaps_df' = fetch_ae33_gaps(ae33_table, timestamps[1], timestamps[2])
    /\ pc' = "ae33_gaps"
    /\ UNCHANGED gapsFixed

\* df_tca_gaps = self.fetch_tca_gaps(self.start_date, self.end_date)
FetchTcaGaps ==
    /\ pc = "gaps"
    /\ gaps_df' = fetch_tca_gaps(tca_table, timestamps[1], timestamps[2])
    /\ pc' = "tca_gaps"
    /\ UNCHANGED gapsFixed

NextGaps == FetchAe33Gaps \/ FetchTcaGaps

SpecGaps == InitGaps /\ [][NextGaps]_vars

-----------------------------------------------------------------------------
(* C25: the pairs the two gap queries return                                 *)

\* The pairs of consecutive timestamps of the rows the query orders.
ConsecutivePairs(stamps) ==
    LET S == {ts \in stamps : InGapRange(ts, timestamps[1], timestamps[2])}
    IN  {p \in S \X S : p[1] < p[2] /\ ~\E c \in S : p[1] < c /\ c < p[2]}

ReportedPairs == {<<gaps_df[n].gap_start, gaps_df[n].gap_end>> : n \in DOMAIN gaps_df}

SortedByGapStart ==
    \A m, n \in DOMAIN gaps_df : m < n => gaps_df[m].gap_start < gaps_df[n].gap_start

\* C25: the two gap queries return exactly the consecutive timestamp pairs
\* that are more than the threshold apart (more than 1 minute for the AE33,
\* more than 60 minutes for the TCA), sorted by gap_start.
C25_PairsBeyondThreshold ==
    /\ pc = "ae33_gaps" =>
          /\ ReportedPairs =
                {p \in ConsecutivePairs({r.datetime : r \in ae33_table}) :
                    p[2] - p[1] > Ae33GapMinutes * SecondsPerMinute}
          /\ SortedByGapStart
    /\ pc = "tca_gaps" =>
          /\ ReportedPairs =
                {p \in ConsecutivePairs({r.StartTimeLocal : r \in tca_table}) :
                    p[2] - p[1] > TcaGapMinutes * SecondsPerMinute}
          /\ SortedByGapStart

\* What the queries do return: the pairs at least one whole minute beyond the
\* threshold.
C25_PairsOfWholeMinutesBeyond ==
    /\ pc = "ae33_gaps" =>
          /\ ReportedPairs =
                {p \in ConsecutivePairs({r.datetime : r \in ae33_table}) :
                    p[2] - p[1] >= (Ae33GapMinutes + 1) * SecondsPerMinute}
          /\ SortedByGapStart
    /\ pc = "tca_gaps" =>
          /\ ReportedPairs =
                {p \in ConsecutivePairs({r.StartTimeLocal : r \in tca_table}) :
                    p[2] - p[1] >= (TcaGapMinutes + 1) * SecondsPerMinute}
          /\ SortedByGapStart

\* Two consecutive AE33 readings 90 seconds apart, and no gap reported
\* between them.
C25_NinetySecondsUnreported ==
    /\ pc = "ae33_gaps"
    /\ <<60, 150>> \in ConsecutivePairs({r.datetime : r \in ae33_table})
    /\ <<60, 150>> \notin ReportedPairs

\* Two consecutive TCA readings 60 minutes 30 seconds apart, and no gap
\* reported between them.
C25_SixtyAndAHalfMinutesUnreported ==
    /\ pc = "tca_gaps"
    /\ <<3600, 7230>> \in ConsecutivePairs({r.StartTimeLocal : r \in tca_table})
    /\ <<3600, 7230>> \notin ReportedPairs

-----------------------------------------------------------------------------
(* audit.py: the modal spacing and the gaps beyond it                        *)

\* (curr - prev).total_seconds() / 60
MinutesBetween(prev, curr) == Frac(curr - prev, SecondsPerMinute)

\* round(delta, 2) of a whole number of seconds in minutes: never a tie.
RoundedMinutes(prev, curr) == Frac((10 * (curr - prev) + 3) \div 6, 100)

\* timestamps.diff().dropna(): the consecutive deltas, in seconds.
Diffs(stamps) == [k \in 1..(Len(stamps) - 1) |-> stamps[k + 1] - stamps[k]]

Occurrences(diffs, d) == Cardinality({k \in DOMAIN diffs : diffs[k] = d})

\* diffs.mode()[0]: the most frequent delta, the smallest of them on a tie.
ModeGap(diffs) ==
    CHOOSE d \in Range(diffs) :
        /\ \A e \in Range(diffs) : Occurrences(diffs, e) <= Occurrences(diffs, d)
        /\ \A e \in Range(diffs) :
              Occurrences(diffs, e) = Occurrences(diffs, d) => d <= e

\* A detector that also reports the pairs at the threshold; C26 must tell it
\* from detect_gaps.
detect_gaps_inclusive(stamps, threshold) ==
    LET at == SelectSeq([k \in 1..(Len(stamps) - 1) |-> k],
                        LAMBDA k : ~RLess(MinutesBetween(stamps[k], stamps[k + 1]),
                                          threshold))
    IN  [n \in DOMAIN at |->
            [gap_start |-> stamps[at[n]], gap_end |-> stamps[at[n] + 1],
             gap_minutes |-> RoundedMinutes(stamps[at[n]], stamps[at[n] + 1])]]

detect_gaps(stamps, threshold) ==
    LET at == SelectSeq([k \in 1..(Len(stamps) - 1) |-> k],
                        LAMBDA k : RLess(threshold,
                                         MinutesBetween(stamps[k], stamps[k + 1])))
    IN  [n \in DOMAIN at |->
            [gap_start |-> stamps[at[n]], gap_end |-> stamps[at[n] + 1],
             gap_minutes |-> RoundedMinutes(stamps[at[n]], stamps[at[n] + 1])]]

\* Readings 60, 90 and 100 seconds apart.
AuditStamps == {0, 60, 120, 180, 270, 360, 460, 560}

\* The time column of the table, sorted, read by audit.py.
InitAudit ==
    /\ pc = "audit"
    /\ NoEngine
    /\ avg_interval_seconds = None
    /\ tca_table = {} /\ ae33_table = {}
    /\ \E S \in SUBSET AuditStamps : timestamps = SortedSeq(S)
    /\ bucket = None /\ gaps_df = None /\ threshold_minutes = None
    /\ files = None /\ added = None /\ uploaded = None
    /\ menu_state = None /\ exitFile = None
    /\ menu_entry_index = None /\ launched = None

auditFixed == <<engineVars, avg_interval_seconds, tca_table, ae33_table, timestamps,
                bucket, files, added, uploaded, menu_state, exitFile,
          menu_entry_index, launched>>

\* timestamps_df.empty: "No data found.", sys.exit(0).
AuditNoData ==
    /\ pc = "audit"
    /\ timestamps = <<>>
    /\ pc' = "exit"
    /\ UNCHANGED <<auditFixed, gaps_df, threshold_minutes>>

\* A single timestamp has no delta: diffs.mode() is empty and [0] raises.
AuditSingleRow ==
    /\ pc = "audit"
    /\ Len(timestamps) = 1
    /\ pc' = "crashed"
    /\ UNCHANGED <<auditFixed, gaps_df, threshold_minutes>>

Audit ==
    /\ pc = "audit"
    /\ Len(timestamps) > 1
    /\ threshold_minutes' = Frac(ModeGap(Diffs(timestamps)), SecondsPerMinute)
    /\ gaps_df' = detect_gaps(timestamps, threshold_minutes')
    /\ pc' = "audited"
    /\ UNCHANGED auditFixed

NextAudit == AuditNoData \/ AuditSingleRow \/ Audit

SpecAudit == InitAudit /\ [][NextAudit]_vars

-----------------------------------------------------------------------------
(* C26: what the audit's gap detector reports                                *)

\* The positions k whose pair (k, k + 1) is strictly more than the modal
\* spacing apart.
BeyondModal ==
    {k \in 1..(Len(timestamps) - 1) :
        RLess(threshold_minutes, MinutesBetween(timestamps[k], timestamps[k + 1]))}

\* C26: the audit takes the most frequent consecutive delta as the modal
\* spacing and reports exactly the consecutive pairs whose delta is strictly
\* greater, as (gap_start, gap_end, minutes) in ascending order; a pair at the
\* modal spacing is never reported and a table of constant spacing has no gaps.
C26_GapsBeyondModalSpacing ==
    pc = "audited" =>
        LET diffs == Diffs(timestamps)
        IN  /\ \E d \in Range(diffs) :
                  /\ threshold_minutes = Frac(d, SecondsPerMinute)
                  /\ \A e \in Range(diffs) : Occurrences(diffs, e) <= Occurrences(diffs, d)
            /\ Len(gaps_df) = Cardinality(BeyondModal)
            /\ \A n \in DOMAIN gaps_df :
                  \E k \in BeyondModal :
                      /\ Cardinality({j \in BeyondModal : j < k}) = n - 1
                      /\ gaps_df[n].gap_start = timestamps[k]
                      /\ gaps_df[n].gap_end = timestamps[k + 1]
                      /\ gaps_df[n].gap_minutes
                            = RoundedMinutes(timestamps[k], timestamps[k + 1])
            /\ \A n \in DOMAIN gaps_df :
                  MinutesBetween(gaps_df[n].gap_start, gaps_df[n].gap_end)
                      # threshold_minutes
            /\ Cardinality(Range(diffs)) = 1 => gaps_df = <<>>

\* Readings 60, 60, 150 and 190 seconds apart: the modal spacing is one
\* minute, the two pairs at it are not reported and the two longer ones are,
\* in order.
C26_TwoGapsReported ==
    /\ pc = "audited"
    /\ timestamps = <<0, 60, 120, 270, 460>>
    /\ threshold_minutes = Num(1)
    /\ Len(gaps_df) = 2
    /\ gaps_df[1].gap_start = 120 /\ gaps_df[1].gap_minutes = Frac(250, 100)
    /\ gaps_df[2].gap_start = 270 /\ gaps_df[2].gap_minutes = Frac(317, 100)

-----------------------------------------------------------------------------
(* C27: the columns computed from B-abs-Brc and BrC-abs-Sec                  *)

\* The columns calculate_final_columns computes from B-abs-Brc or
\* BrC-abs-Sec.
ComputedFromForced == {"BrC-abs-Prim", "POA_BrC", "SOA_BrC", "POA_WtC", "SOA_WtC"}

\* The sentinel pass has written -99 to B-abs-Brc or BrC-abs-Sec of the row:
\* the anchor rule fired (B-abs2 and B-abs7 are left as they were) or the
\* TCconc rule fired (it leaves TCconc = -99).
ForcedInRow(row) == AnchorRuleFires(row) \/ REq(row["TCconc"], Sentinel)

\* C27: after calculate_final_columns, in every row where B-abs-Brc or
\* BrC-abs-Sec has been forced to -99, the columns computed from them
\* (BrC-abs-Prim, POA_BrC, SOA_BrC, POA_WtC, SOA_WtC) are -99 too, also where
\* the anchor rule fired and TCconc is valid.
C27_ComputedColumnsFollow ==
    pc \in {"calculated", "done"} =>
        \A i \in DOMAIN TCA_AE_hourly :
            ForcedInRow(TCA_AE_hourly[i]) =>
                /\ REq(TCA_AE_hourly[i]["BrC-abs-Sec"], Sentinel)
                /\ \A c \in ComputedFromForced : REq(TCA_AE_hourly[i][c], Sentinel)

\* The same, for the rows in which the TCconc rule fired.
C27_HoldsWhenTCconcRuleFires ==
    pc \in {"calculated", "done"} =>
        \A i \in DOMAIN TCA_AE_hourly :
            REq(TCA_AE_hourly[i]["TCconc"], Sentinel) =>
                /\ REq(TCA_AE_hourly[i]["BrC-abs-Sec"], Sentinel)
                /\ \A c \in ComputedFromForced : REq(TCA_AE_hourly[i][c], Sentinel)

\* The anchor rule fired in a row with a valid TCconc: B-abs-Brc and
\* BrC-abs-Sec are -99 and none of the five columns computed from them is.
C27_AnchorRowKeepsComputed ==
    /\ pc = "calculated"
    /\ \E i \in DOMAIN TCA_AE_hourly :
          /\ AnchorRuleFires(TCA_AE_hourly[i])
          /\ IsGood(TCA_AE_hourly[i]["TCconc"])
          /\ REq(TCA_AE_hourly[i]["B-abs-Brc"], Sentinel)
          /\ REq(TCA_AE_hourly[i]["BrC-abs-Sec"], Sentinel)
          /\ \A c \in ComputedFromForced :
                /\ ~IsNaN(TCA_AE_hourly[i][c])
                /\ ~REq(TCA_AE_hourly[i][c], Sentinel)

-----------------------------------------------------------------------------
(* dbPush.py: the upload of the raw AE33 and TCA files                       *)

\* A raw line of an AE33 file: its first two fields as written, a reading,
\* and whether it has as many fields as the header.
Ae33Line(stamp, v, complete) == [stamp |-> stamp, val |-> v, complete |-> complete]

\* strptime(row[0], "%Y/%m/%d") and strptime(row[1], "%H:%M:%S") accept
\* fields without leading zeros; anything else raises.
Ae33Parses(stamp) ==
    stamp \in {"2024/01/05 00:00:00", "2024/1/5 0:0:0", "2024/01/05 00:01:00"}

\* dt = f"{date_str} {time_str}" of the two fields after strftime.
Ae33Datetime(stamp) ==
    IF stamp = "2024/01/05 00:01:00" THEN "2024-01-05 00:01:00"
    ELSE "2024-01-05 00:00:00"

\* A raw row of a TCA file: its ID field as written, a reading, and whether
\* it has as many fields as the header.
TcaLine(id, v, complete) == [id |-> id, val |-> v, complete |-> complete]

\* int(row[0]) does not raise.
IntParses(id) == id \in {"1", "01", " 2", "1_0"}

\* int(row[0])
IntOf(id) ==
    CASE id = "1" -> 1
      [] id = "01" -> 1
      [] id = " 2" -> 2
      [] id = "1_0" -> 10

\* The column "ID" INTEGER PRIMARY KEY takes the text: it reads as a whole
\* number ("1_0" does not: datatype mismatch).
SqlIntegerConverts(id) == id \in {"1", "01", " 2"}

\* SELECT COUNT(*) FROM table WHERE key_field = value, > 0
row_exists(table, key_field, value) == \E r \in table : r[key_field] = value

\* One line of an AE33 file that writes over the stored row of its datetime;
\* C28 must tell it from Ae33LineStep.
Ae33LineOverwrite(st, line) ==
    IF ~Ae33Parses(line.stamp) \/ ~line.complete THEN st
    ELSE [table |-> {r \in st.table : r.datetime # Ae33Datetime(line.stamp)}
                        \cup {[datetime |-> Ae33Datetime(line.stamp), val |-> line.val]},
          added |-> st.added + 1]

\* The body of the loop of process_file_ae33 for one line; st is the table
\* and the count of rows added so far.
Ae33LineStep(st, line) ==
    IF ~Ae33Parses(line.stamp) \/ ~line.complete THEN st
    ELSE IF row_exists(st.table, "datetime", Ae33Datetime(line.stamp)) THEN st
    ELSE [table |-> st.table \cup {[datetime |-> Ae33Datetime(line.stamp),
                                    val |-> line.val]},
          added |-> st.added + 1]

\* The body of the loop of process_file_tca for one row.
TcaLineStep(st, line) ==
    IF ~line.complete \/ ~IntParses(line.id) THEN st
    ELSE IF row_exists(st.table, "ID", IntOf(line.id)) THEN st
    ELSE IF ~SqlIntegerConverts(line.id) THEN st
    ELSE [table |-> st.table \cup {[ID |-> IntOf(line.id), val |-> line.val]},
          added |-> st.added + 1]

\* The lines of the files of the folder, in the order they are processed.
RECURSIVE AllLines(_)
AllLines(folder) ==
    IF folder = <<>> THEN <<>> ELSE Head(folder) \o AllLines(Tail(folder))

\* run_ae33: every file of the folder, every line of the file.
RECURSIVE process_files_ae33(_, _)
process_files_ae33(st, lines) ==
    IF lines = <<>> THEN st
    ELSE process_files_ae33(Ae33LineStep(st, Head(lines)), Tail(lines))

\* run_tca: every file of the folder, every row of the file.
RECURSIVE process_files_tca(_, _)
process_files_tca(st, lines) ==
    IF lines = <<>> THEN st
    ELSE process_files_tca(TcaLineStep(st, Head(lines)), Tail(lines))

Ae33FileA ==
    <<Ae33Line("2024/01/05 00:00:00", 1, TRUE), Ae33Line("2024/1/5 0:0:0", 2, TRUE),
      Ae33Line("bad 00:00:00", 1, TRUE)>>

Ae33FileB ==
    <<Ae33Line("2024/01/05 00:01:00", 1, FALSE), Ae33Line("2024/01/05 00:01:00", 2, TRUE),
      Ae33Line("2024/01/05 00:00:00", 2, TRUE)>>

TcaFileA == <<TcaLine("1", 1, TRUE), TcaLine("01", 2, TRUE), TcaLine("x", 1, TRUE)>>

TcaFileB ==
    <<TcaLine(" 2", 2, FALSE), TcaLine(" 2", 1, TRUE), TcaLine("1_0", 1, TRUE),
      TcaLine("1", 2, TRUE), TcaLine(" 2", 2, TRUE)>>

\* What the data folders can hold: the files whose name has the prefix.
Ae33Folders == {<<>>, <<Ae33FileA>>, <<Ae33FileB>>, <<Ae33FileA, Ae33FileB>>,
                <<Ae33FileB, Ae33FileA>>}

TcaFolders == {<<>>, <<TcaFileA>>, <<TcaFileB>>, <<TcaFileA, TcaFileB>>,
               <<TcaFileB, TcaFileA>>}

\* Upload runs of one instrument counted since its folder last changed.
MaxRuns == 2

InitPush ==
    /\ pc = "push"
    /\ NoEngine
    /\ avg_interval_seconds = None
    /\ tca_table = {} /\ ae33_table = {}
    /\ timestamps = None /\ bucket = None /\ gaps_df = None /\ threshold_minutes = None
    /\ files \in [ae33 : Ae33Folders, tca : TcaFolders]
    /\ added = 0
    /\ uploaded = [ae33 |-> 0, tca |-> 0]
    /\ menu_state = None /\ exitFile = None
    /\ menu_entry_index = None /\ launched = None

pushFixed == <<pc, engineVars, avg_interval_seconds, timestamps, bucket, gaps_df,
               threshold_minutes, menu_state, exitFile,
          menu_entry_index, launched>>

\* New raw files arrive in the AE33 data folder, or old ones leave.
NewAe33Files ==
    /\ pc = "push"
    /\ \E folder \in Ae33Folders \ {files.ae33} : files' = [files EXCEPT !.ae33 = folder]
    /\ uploaded' = [uploaded EXCEPT !.ae33 = 0]
    /\ UNCHANGED <<pushFixed, ae33_table, tca_table, added>>

NewTcaFiles ==
    /\ pc = "push"
    /\ \E folder \in TcaFolders \ {files.tca} : files' = [files EXCEPT !.tca = folder]
    /\ uploaded' = [uploaded EXCEPT !.tca = 0]
    /\ UNCHANGED <<pushFixed, ae33_table, tca_table, added>>

run_ae33 ==
    /\ pc = "push"
    /\ uploaded.ae33 < MaxRuns
    /\ LET st == process_files_ae33([table |-> ae33_table, added |-> 0],
                                    AllLines(files.ae33))
       IN  ae33_table' = st.table /\ added' = st.added
    /\ uploaded' = [uploaded EXCEPT !.ae33 = @ + 1]
    /\ UNCHANGED <<pushFixed, tca_table, files>>

run_tca ==
    /\ pc = "push"
    /\ uploaded.tca < MaxRuns
    /\ LET st == process_files_tca([table |-> tca_table, added |-> 0],
                                   AllLines(files.tca))
       IN  tca_table' = st.table /\ added' = st.added
    /\ uploaded' = [uploaded EXCEPT !.tca = @ + 1]
    /\ UNCHANGED <<pushFixed, ae33_table, files>>

NextPush == NewAe33Files \/ NewTcaFiles \/ run_ae33 \/ run_tca

SpecPush == InitPush /\ [][NextPush]_vars

-----------------------------------------------------------------------------
(* C28: the upload is idempotent and keeps the keys unique                   *)

KeyUnique(table, key_field) ==
    \A r, q \in table : r[key_field] = q[key_field] => r = q

\* Every line of the folder that can be stored has its key in the table.
Ae33AllStored ==
    \A i \in DOMAIN AllLines(files.ae33) :
        LET line == AllLines(files.ae33)[i]
        IN  (Ae33Parses(line.stamp) /\ line.complete) =>
                row_exists(ae33_table, "datetime", Ae33Datetime(line.stamp))

TcaAllStored ==
    \A i \in DOMAIN AllLines(files.tca) :
        LET line == AllLines(files.tca)[i]
        IN  (line.complete /\ IntParses(line.id) /\ SqlIntegerConverts(line.id)) =>
                row_exists(tca_table, "ID", IntOf(line.id))

\* C28: after any sequence of AE33 and TCA upload runs no two AE33 rows share
\* a datetime and no two TCA rows share an ID, a stored row is never
\* overwritten, and uploading again the files already uploaded adds no row.
C28_IdempotentKeyUnique ==
    /\ [](KeyUnique(ae33_table, "datetime") /\ KeyUnique(tca_table, "ID"))
    /\ [][/\ ae33_table \subseteq ae33_table'
          /\ tca_table \subseteq tca_table'
          /\ ((uploaded.ae33 > 0 \/ Ae33AllStored) /\ uploaded'.ae33 > uploaded.ae33) =>
                added' = 0 /\ ae33_table' = ae33_table
          /\ ((uploaded.tca > 0 \/ TcaAllStored) /\ uploaded'.tca > uploaded.tca) =>
                added' = 0 /\ tca_table' = tca_table]_vars

\* Both folders, with keys repeated within and across their files, have been
\* uploaded twice: the second TCA run added nothing and the first row of each
\* key is the one stored.
C28_UploadedTwice ==
    /\ uploaded = [ae33 |-> 2, tca |-> 2]
    /\ files = [ae33 |-> <<Ae33FileA, Ae33FileB>>, tca |-> <<TcaFileA, TcaFileB>>]
    /\ added = 0
    /\ ae33_table = {[datetime |-> "2024-01-05 00:00:00", val |-> 1],
                     [datetime |-> "2024-01-05 00:01:00", val |-> 2]}
    /\ tca_table = {[ID |-> 1, val |-> 1], [ID |-> 2, val |-> 1]}

-----------------------------------------------------------------------------
(* C29: chunks of one or two days laid from a midnight                       *)

\* Time_Delta is 1 or 2 and the frame's earliest timestamp is a midnight.
ShortChunksFromMidnight ==
    /\ Time_Delta \in {1, 2}
    /\ TCA_AE_hourly # <<>>
    /\ MinDt % DaySeconds = 0

AllMissing(col) == \A i \in DOMAIN TCA_AE_hourly : TCA_AE_hourly[i][col] = NaN

\* C29: with Time_Delta 1 or 2 and the frame's minimum timestamp at midnight
\* the chunk under way never has 3 distinct days, no chunk is regressed (no
\* plot, no exception), and when the passes have ended BrC-abs-Sec and SOC
\* are NaN in every row, whatever the data.
C29_ShortChunksNeverRegressed ==
    (pc \in {"brC", "SOC", "final", "raised"} /\ ShortChunksFromMidnight) =>
        /\ pc # "raised"
        /\ ~found_3day
        /\ rsquared_plots = <<>>
        /\ (pc \in {"brC", "SOC"} /\ LoopContinues) =>
              UniqueDays(TCA_AE_hourly, CurrentChunk) < MinDistinctDays
        /\ pc \in {"SOC", "final"} => AllMissing("BrC-abs-Sec")
        /\ pc = "final" => AllMissing("SOC")

\* Both passes have ended with Time_Delta = 2 on a frame that starts at a
\* midnight and has rows with all four signals valid on 3 distinct days:
\* both derived columns are NaN throughout.
C29_ThreeDaysOfDataAllMissing ==
    /\ pc = "final"
    /\ Time_Delta = 2
    /\ ShortChunksFromMidnight
    /\ Cardinality({DateOf(TCA_AE_hourly[i]["Date_and_Time"]) :
            i \in {j \in DOMAIN TCA_AE_hourly :
                      /\ IsGood(TCA_AE_hourly[j]["OC"])
                      /\ IsGood(TCA_AE_hourly[j]["AE33_BC6"])
                      /\ IsGood(TCA_AE_hourly[j]["B-abs2"])
                      /\ IsGood(TCA_AE_hourly[j]["B-abs6"])}}) >= MinDistinctDays
    /\ AllMissing("SOC")
    /\ AllMissing("BrC-abs-Sec")

-----------------------------------------------------------------------------
(* main.py: the menu loop                                                    *)

CONNECTED_MENU == "Main"

PUSH_MENU == "Upload"

AUDIT_MENU == "Audit"

ANALYSIS_MENU == "Analysis"

CONFIG_MENU == "Configuration"

Submenus == {PUSH_MENU, AUDIT_MENU, ANALYSIS_MENU, CONFIG_MENU}

\* TerminalMenu.show() returns None when the menu is left without a choice;
\* no branch of the loop body matches it.
NoSelection == -1

\* The options list built at the head of the loop body.
Options(menu) ==
    CASE menu = CONNECTED_MENU -> <<"Analysis", "Upload Data", "Audit", "Configuration", "Exit">>
      [] menu = PUSH_MENU -> <<"AE33", "TCA", "Both", "Data Folder", "Back">>
      [] menu = AUDIT_MENU -> <<"AE33 Time Gaps", "TCA Time Gaps", "Audits Folder", "Back">>
      [] menu = ANALYSIS_MENU -> <<"Run Analysis", "Update Constants", "Folder", "Back">>
      [] menu = CONFIG_MENU -> <<"Test DB Connection", "Data Config", "DB Config",
                                 "DB Install", "Back">>

\* get_menu_choice(options): an index of the list, or no selection.
Choices(menu) == {k - 1 : k \in DOMAIN Options(menu)} \cup {NoSelection}

\* The branch of CONNECTED_MENU for the entries 0..3.
SubmenuOf(index) ==
    CASE index = 0 -> ANALYSIS_MENU
      [] index = 1 -> PUSH_MENU
      [] index = 2 -> AUDIT_MENU
      [] index = 3 -> CONFIG_MENU

\* The entry of a submenu that assigns CONNECTED_MENU.
BackIndex(menu) == Len(Options(menu)) - 1

\* What the branch of an action entry starts: scripts through
\* subprocess.run([sys.executable, ...]) or check_db_connection().
Scripts(menu, index) ==
    CASE menu = PUSH_MENU /\ index = 0 -> <<"dbPush.py ae33">>
      [] menu = PUSH_MENU /\ index = 1 -> <<"dbPush.py tca">>
      [] menu = PUSH_MENU /\ index = 2 -> <<"dbPush.py ae33", "dbPush.py tca">>
      [] menu = ANALYSIS_MENU /\ index = 0 -> <<"CassSpeciation.py">>
      [] menu = AUDIT_MENU /\ index = 0 -> <<"audit.py ae33">>
      [] menu = AUDIT_MENU /\ index = 1 -> <<"audit.py tca">>
      [] menu = CONFIG_MENU /\ index = 0 -> <<"check_db_connection">>
      [] menu = CONFIG_MENU /\ index = 3 -> <<"dbInstall.py">>
      [] OTHER -> <<>>

\* What the branch hands to open_folder or open_file_with_default_editor.
Opened(menu, index) ==
    CASE menu = PUSH_MENU /\ index = 3 -> <<"open rawData">>
      [] menu = ANALYSIS_MENU /\ index = 1 -> <<"open constants.conf">>
      [] menu = ANALYSIS_MENU /\ index = 2 -> <<"open CASSOutput">>
      [] menu = AUDIT_MENU /\ index = 2 -> <<"open audits">>
      [] menu = CONFIG_MENU /\ index = 1 -> <<"open data.conf">>
      [] menu = CONFIG_MENU /\ index = 2 -> <<"open db.conf">>
      [] OTHER -> <<>>

\* Entries started in one session of the menu, at most.
MaxLaunches == 2

InitMenu ==
    /\ pc = "menu"
    /\ NoEngine
    /\ avg_interval_seconds = None
    /\ tca_table = {} /\ ae33_table = {}
    /\ timestamps = None /\ bucket = None /\ gaps_df = None /\ threshold_minutes = None
    /\ files = None /\ added = None /\ uploaded = None
    /\ menu_state = CONNECTED_MENU
    /\ exitFile = FALSE
    /\ menu_entry_index = NoSelection
    /\ launched = <<>>

menuFixed == <<engineVars, avg_interval_seconds, tca_table, ae33_table, timestamps,
               bucket, gaps_df, threshold_minutes, files, added, uploaded>>

\* The menu is left without a choice: no branch runs.
MenuNoSelection ==
    /\ pc = "menu"
    /\ menu_entry_index' = NoSelection
    /\ UNCHANGED <<pc, menu_state, exitFile, launched, menuFixed>>

\* Main: one of the four submenus is chosen.
MenuEnter ==
    /\ pc = "menu"
    /\ menu_state = CONNECTED_MENU
    /\ \E index \in 0..3 :
          /\ menu_entry_index' = index
          /\ menu_state' = SubmenuOf(index)
    /\ UNCHANGED <<pc, exitFile, launched, menuFixed>>

\* Main: Exit is chosen; the loop condition fails and the script ends.
MenuExit ==
    /\ pc = "menu"
    /\ menu_state = CONNECTED_MENU
    /\ menu_entry_index' = 4
    /\ exitFile' = TRUE
    /\ pc' = "exit"
    /\ UNCHANGED <<menu_state, launched, menuFixed>>

\* A submenu: Back is chosen.
MenuBack ==
    /\ pc = "menu"
    /\ menu_state \in Submenus
    /\ menu_entry_index' = BackIndex(menu_state)
    /\ menu_state' = CONNECTED_MENU
    /\ UNCHANGED <<pc, exitFile, launched, menuFixed>>

\* A submenu: an entry that runs scripts and waits for them.
MenuRunScripts ==
    /\ pc = "menu"
    /\ menu_state \in Submenus
    /\ \E index \in Choices(menu_state) :
          /\ Scripts(menu_state, index) # <<>>
          /\ Len(launched) + Len(Scripts(menu_state, index)) <= MaxLaunches
          /\ menu_entry_index' = index
          /\ launched' = launched \o Scripts(menu_state, index)
    /\ UNCHANGED <<pc, menu_state, exitFile, menuFixed>>

\* A submenu: an entry that opens a folder or a file, and the opener returns.
MenuOpen ==
    /\ pc = "menu"
    /\ menu_state \in Submenus
    /\ \E index \in Choices(menu_state) :
          /\ Opened(menu_state, index) # <<>>
          /\ Len(launched) + 1 <= MaxLaunches
          /\ menu_entry_index' = index
          /\ launched' = launched \o Opened(menu_state, index)
    /\ UNCHANGED <<pc, menu_state, exitFile, menuFixed>>

\* A submenu: an entry that opens a folder or a file, and the opener raises
\* (the command is not installed, or, for a file, it returns non-zero under
\* check=True).  Nothing catches the exception.
MenuOpenRaises ==
    /\ pc = "menu"
    /\ menu_state \in Submenus
    /\ \E index \in Choices(menu_state) :
          /\ Opened(menu_state, index) # <<>>
          /\ menu_entry_index' = index
    /\ pc' = "crashed"
    /\ UNCHANGED <<menu_state, exitFile, launched, menuFixed>>

NextMenu ==
    \/ MenuNoSelection
    \/ MenuEnter
    \/ MenuExit
    \/ MenuBack
    \/ MenuRunScripts
    \/ MenuOpen
    \/ MenuOpenRaises

SpecMenu == InitMenu /\ [][NextMenu]_vars

-----------------------------------------------------------------------------
(* C30: the menu as a state machine                                          *)

IsActionEntry(menu, index) ==
    Scripts(menu, index) # <<>> \/ Opened(menu, index) # <<>>

\* menu_state is one of the five menus; it changes only from Main to the
\* submenu chosen and from a submenu to Main on Back; an action entry leaves
\* it as it is.
MenuStateMachine ==
    /\ [](menu_state \in {CONNECTED_MENU} \cup Submenus)
    /\ [][/\ menu_state' # menu_state =>
                \/ /\ menu_state = CONNECTED_MENU
                   /\ menu_entry_index' \in 0..3
                   /\ menu_state' = SubmenuOf(menu_entry_index')
                \/ /\ menu_state \in Submenus
                   /\ menu_entry_index' = BackIndex(menu_state)
                   /\ menu_state' = CONNECTED_MENU
          /\ IsActionEntry(menu_state, menu_entry_index') => menu_state' = menu_state]_vars

ExitChosenInMain ==
    /\ menu_state = CONNECTED_MENU
    /\ menu_entry_index' = 4
    /\ exitFile'

\* C30: the menu is a five-state machine whose only transitions are Main to
\* a submenu and Back to Main, action entries leave menu_state unchanged, and
\* the loop ends only when Exit is chosen while in Main.
C30_LoopEndsOnlyOnExit ==
    /\ MenuStateMachine
    /\ [][(pc = "menu" /\ pc' # "menu") => ExitChosenInMain]_vars

\* C30 for the loop's own exit: the state machine is as claimed, exitFile is
\* set only by Exit in Main, and the loop condition ends the loop only then.
C30_HoldsUnlessOpenerRaises ==
    /\ MenuStateMachine
    /\ [][(exitFile' # exitFile \/ pc' = "exit") =>
              (ExitChosenInMain /\ pc' = "exit")]_vars

\* The loop has ended in the Configuration menu on the entry Data Config,
\* with exitFile still false.
C30_EndedInConfiguration ==
    /\ pc = "crashed"
    /\ menu_state = CONFIG_MENU
    /\ menu_entry_index = 1
    /\ exitFile = FALSE

=============================================================================
